---------------------------- MODULE Spec2Model ----------------------------
(***************************************************************************)
(* Model of the digifilm album tooling:                                    *)
(*   - the album CLI (src/unnamed/part_000, lines 24-548): main,           *)
(*     deleteAlbum, manageAlbum and the R2 / KV helpers they call;         *)
(*   - the bulk uploader (src/uploader/main.js);                           *)
(*   - the single-album view (src/unnamed/part_002): fetchAlbumData and    *)
(*     downloadZip with the awaits at which other handlers may run.        *)
(* Text is modelled as sequences of one-character strings so that key      *)
(* construction, prefix matching, the extension filter and the slug        *)
(* derivation are computed the way the code computes them.                 *)
(***************************************************************************)
EXTENDS Integers, Sequences, FiniteSets, TLC

----------------------------------------------------------------------------
(* Text helpers (JavaScript string operations used by the scripts)         *)

\* The characters that occur in the model, in ascending code-unit order.
Alphabet ==
  << " ", "-", ".", "/",
     "0", "1", "2", "3", "4", "5", "6", "7", "8", "9", ":",
     "A", "B", "C", "D", "E", "F", "G", "H", "I", "J", "K", "L", "M",
     "N", "O", "P", "Q", "R", "S", "T", "U", "V", "W", "X", "Y", "Z", "_",
     "a", "b", "c", "d", "e", "f", "g", "h", "i", "j", "k", "l", "m",
     "n", "o", "p", "q", "r", "s", "t", "u", "v", "w", "x", "y", "z" >>

\* Rank of a character in code-unit order.
CodeOf(c) == CHOOSE k \in 1..Len(Alphabet) : Alphabet[k] = c

UpperLetters ==
  << "A", "B", "C", "D", "E", "F", "G", "H", "I", "J", "K", "L", "M",
     "N", "O", "P", "Q", "R", "S", "T", "U", "V", "W", "X", "Y", "Z" >>

LowerLetters ==
  << "a", "b", "c", "d", "e", "f", "g", "h", "i", "j", "k", "l", "m",
     "n", "o", "p", "q", "r", "s", "t", "u", "v", "w", "x", "y", "z" >>

UpperSet == { UpperLetters[k] : k \in 1..Len(UpperLetters) }

LowerOf(c) ==
  IF c \in UpperSet
  THEN LowerLetters[CHOOSE k \in 1..Len(UpperLetters) : UpperLetters[k] = c]
  ELSE c

\* String.prototype.toLowerCase
ToLowerCase(s) == [ k \in 1..Len(s) |-> LowerOf(s[k]) ]

DigitChars == << "0", "1", "2", "3", "4", "5", "6", "7", "8", "9" >>

IsDigit(c) == c \in { DigitChars[k] : k \in 1..Len(DigitChars) }

IsLowerLetter(c) == c \in { LowerLetters[k] : k \in 1..Len(LowerLetters) }

\* Number.prototype.toString for a non-negative integer.
RECURSIVE NumToString(_)
NumToString(n) ==
  IF n < 10 THEN << DigitChars[n + 1] >>
  ELSE NumToString(n \div 10) \o << DigitChars[(n % 10) + 1] >>

\* String.prototype.startsWith
StartsWith(s, p) == Len(s) >= Len(p) /\ SubSeq(s, 1, Len(p)) = p

\* String.prototype.includes
Includes(s, p) ==
  \E k \in 0..(Len(s) - Len(p)) : SubSeq(s, k + 1, k + Len(p)) = p

\* s.replace(/[cs]/g, r): every character of the set cs is replaced by r.
ReplaceChars(s, cs, r) == [ k \in 1..Len(s) |-> IF s[k] \in cs THEN r ELSE s[k] ]

\* a < b in the order of String comparison (code units, shorter prefix first).
RECURSIVE StrLess(_, _)
StrLess(a, b) ==
  IF b = << >> THEN FALSE
  ELSE IF a = << >> THEN TRUE
  ELSE IF a[1] = b[1] THEN StrLess(Tail(a), Tail(b))
  ELSE CodeOf(a[1]) < CodeOf(b[1])

\* Array.prototype.filter over a sequence.
\* (evaluated by halving, so that long sequences need little nesting)
RECURSIVE FilterRange(_, _, _, _)
FilterRange(s, Keep(_), lo, hi) ==
  IF lo > hi THEN << >>
  ELSE IF lo = hi THEN (IF Keep(s[lo]) THEN << s[lo] >> ELSE << >>)
  ELSE LET mid == (lo + hi) \div 2
       IN  FilterRange(s, Keep, lo, mid) \o FilterRange(s, Keep, mid + 1, hi)

FilterSeq(s, Keep(_)) == FilterRange(s, Keep, 1, Len(s))

MapSeq(s, F(_)) == [ k \in 1..Len(s) |-> F(s[k]) ]

Range(s) == { s[k] : k \in 1..Len(s) }

\* Array.prototype.slice(from, to) with 0-based bounds, to exclusive.
Slice(s, from, to) ==
  SubSeq(s, from + 1, IF to < Len(s) THEN to ELSE Len(s))

----------------------------------------------------------------------------
(* Image extension filter                                                  *)

ImageExtensions ==
  { << "j", "p", "e", "g" >>, << "j", "p", "g" >>, << "p", "n", "g" >>,
    << "g", "i", "f" >>, << "w", "e", "b", "p" >>, << "a", "v", "i", "f" >> }

\* /\.(jpeg|jpg|png|gif|webp|avif)$/i.test(name): the name ends, whatever
\* the case of its letters, with a dot and one of the extensions.
IsImageName(name) ==
  \E e \in ImageExtensions :
    /\ Len(name) > Len(e)
    /\ ToLowerCase(SubSeq(name, Len(name) - Len(e), Len(name))) = << "." >> \o e

----------------------------------------------------------------------------
(* The object store (R2 through the S3 API)                                *)
(* The bucket is a sequence of objects kept in ascending key order, which  *)
(* is the order in which the service lists them.                           *)

\* Page size of one ListObjectsV2 response when the request names none.
MaxKeys == 1000

Min(a, b) == IF a < b THEN a ELSE b

\* The response to ListObjectsV2 {Bucket, Prefix} without a continuation
\* token: the first MaxKeys objects under the prefix, and whether more remain.
ListObjectsV2(store, prefix) ==
  LET below == Cardinality({ k \in 1..Len(store) : StrLess(store[k].Key, prefix) })
      n     == Cardinality({ k \in 1..Len(store) : StartsWith(store[k].Key, prefix) })
  IN  [ Contents    |-> SubSeq(store, below + 1, below + Min(n, MaxKeys)),
        IsTruncated |-> n > MaxKeys ]

\* The bucket after PutObject: the object replaces one of the same key.
PutObject(store, obj) ==
  LET below == Cardinality({ k \in 1..Len(store) : StrLess(store[k].Key, obj.Key) })
      same  == IF below < Len(store) /\ store[below + 1].Key = obj.Key THEN 1 ELSE 0
  IN  SubSeq(store, 1, below) \o << obj >> \o SubSeq(store, below + same + 1, Len(store))

\* The bucket after DeleteObjects removed the keys of the set deleted.
DeleteObjects(store, deleted) ==
  LET Kept(o) == o.Key \notin deleted IN FilterSeq(store, Kept)

KeyOf(obj) == obj.Key

\* listR2Images: one list call, the extension filter, the keys.  A transport
\* failure is caught and gives the empty list.
ListR2Images(store, id, fails) ==
  IF fails THEN << >>
  ELSE LET response == ListObjectsV2(store, id \o << "/" >>)
           IsImage(o) == IsImageName(o.Key)
       IN  MapSeq(FilterSeq(response.Contents, IsImage), KeyOf)

----------------------------------------------------------------------------
(* The metadata store (Workers KV)                                         *)
(* kv is a function from the keys present to the stored documents.         *)

Null == [ isNull |-> TRUE ]

\* const kvKey = `album:${albumId}`
KvKey(id) == << "a", "l", "b", "u", "m", ":" >> \o id

\* getKvMetadata: the parsed document, or null when the client is not
\* configured, the key is absent or the request fails.
GetKvMetadata(store, configured, id, fails) ==
  IF ~configured THEN Null
  ELSE IF fails THEN Null
  ELSE IF KvKey(id) \in DOMAIN store THEN store[KvKey(id)]
  ELSE Null

\* Variant: an error of the request leaves getKvMetadata as an exception.
AfterGetKvRethrows(fails, next) == IF fails THEN "crashed" ELSE next

\* Where the caller of getKvMetadata goes on: the catch block returns null
\* for every error, so the caller always continues.
AfterGetKv(fails, next) == next

\* The namespace after values.update(kvKey, value).
KvUpdate(store, key, doc) ==
  [ k \in (DOMAIN store) \cup { key } |-> IF k = key THEN doc ELSE store[k] ]

\* The namespace after values.delete(kvKey).
KvDelete(store, key) == [ k \in (DOMAIN store) \ { key } |-> store[k] ]

----------------------------------------------------------------------------
(* State                                                                   *)

VARIABLES
  kv,                \* metadata store: key -> document, for the keys present
  r2,                \* object store: objects in ascending key order
  cloudflare,        \* cloudflareClient && KV_NAMESPACE_ID are set
  pc,                \* position of the running script
  action,            \* main: the chosen action
  albumId,           \* the album id the script works with
  existingMetadata,  \* deleteAlbum / manageAlbum: result of getKvMetadata
  existingImages,    \* deleteAlbum / manageAlbum: result of listR2Images
  confirmDelete,     \* deleteAlbum: the operator's answer
  imageKeys,         \* deleteR2Images: keys to delete
  i,                 \* deleteR2Images: batch loop index
  deletedCount,      \* deleteR2Images: keys reported deleted
  manageMetadata,    \* manageAlbum: answer to the metadata prompt
  kvMetadata,        \* manageAlbum: the document to save
  uploadImages,      \* manageAlbum: answer to the upload prompt
  localBaseDir,      \* the base directory entered at the prompt
  selectedFolder,    \* the local folder chosen for upload
  imageFiles,        \* the matching files of the folder
  fileIndex,         \* upload loop: number of files handled so far
  uploadedCount,     \* upload loop: successful puts
  calls,             \* requests sent to the two stores by this run
  console,           \* messages printed by this run
  start,             \* the two stores as they were when the run began
  faults,            \* number of failed requests and per-key errors of this run
  runs,              \* script runs started so far
  previous,          \* what the run before this one left behind
  data,              \* singleAlbum: the album shown, or null
  loading,           \* singleAlbum: loading
  error,             \* singleAlbum: the error shown, or null
  currentAlbumId,    \* singleAlbum: the id last asked for; empty for null
  instances,         \* singleAlbum: masonryInstance and photoSwipeLightbox are set
  ticks,             \* $nextTick callbacks of fetchAlbumData not yet run
  downloading,       \* singleAlbum: downloading
  downloadProgress,  \* singleAlbum: downloadProgress
  hash,              \* window.location.hash
  mounted,           \* init() has run
  requests,          \* the fetchAlbumData calls so far, in order of their start
  defaultShown,      \* setDefaultAlbumState ran after the last fetchAlbumData began
  clicks,            \* number of downloadZip calls so far
  zipTasks,          \* the downloadZip calls that are at an await
  imageFetches,      \* image requests sent by downloadZip
  zips,              \* the zip files handed to the browser
  alerts,            \* alerts shown
  timers             \* pending setTimeout callbacks of downloadZip

\* The single-album view: the fields of the component and what surrounds it.
singleAlbum == << data, loading, error, currentAlbumId, instances, ticks, downloading,
                 downloadProgress, hash, mounted, requests, defaultShown,
                 clicks, zipTasks, imageFetches, zips, alerts, timers >>

deleteLocals == << existingMetadata, existingImages, confirmDelete,
                   imageKeys, i, deletedCount >>

prompts == << manageMetadata, uploadImages >>

uploadLocals == << kvMetadata, localBaseDir, selectedFolder, imageFiles, fileIndex,
                   uploadedCount >>

\* The two stores and the state of the command-line scripts.
scripts == << kv, r2, cloudflare, pc, action, albumId,
              existingMetadata, existingImages, confirmDelete,
              imageKeys, i, deletedCount,
              manageMetadata, kvMetadata, uploadImages,
              localBaseDir, selectedFolder, imageFiles, fileIndex,
              uploadedCount, calls, console, start, faults, runs, previous >>

\* What downloadZip works on.
zipLocals == << downloading, downloadProgress, clicks, zipTasks, imageFetches,
               zips, alerts, timers >>

vars == << kv, r2, cloudflare, pc, action, albumId,
           existingMetadata, existingImages, confirmDelete,
           imageKeys, i, deletedCount,
           manageMetadata, kvMetadata, uploadImages,
           localBaseDir, selectedFolder, imageFiles, fileIndex,
           uploadedCount, calls, console, start, faults, runs, previous,
           singleAlbum >>

\* The album id null, and the empty hash.
NoId == << >>

\* The component as Alpine.data("singleAlbum") returns it, before init().
InitSingleAlbum ==
  /\ data = Null
  /\ loading = TRUE
  /\ error = Null
  /\ currentAlbumId = NoId
  /\ instances = FALSE
  /\ ticks = 0
  /\ downloading = FALSE
  /\ downloadProgress = 0
  /\ hash = << >>
  /\ mounted = FALSE
  /\ requests = << >>
  /\ defaultShown = FALSE
  /\ clicks = 0
  /\ zipTasks = << >>
  /\ imageFetches = 0
  /\ zips = << >>
  /\ alerts = 0
  /\ timers = 0

\* A request sent to a store: the service, the operation, its argument and
\* whether it went through.
Call(svc, op, arg, ok) == [ svc |-> svc, op |-> op, arg |-> arg, ok |-> ok ]

Msg(level, text, arg) == [ level |-> level, text |-> text, arg |-> arg ]

----------------------------------------------------------------------------
(* Inputs                                                                  *)

AlbumA == << "a", "1" >>

AlbumB == << "b", "-", "2" >>

\* What the operator may type at the album id prompt.
AlbumIdInputs ==
  { AlbumA, << " " >> \o AlbumB \o << " " >>, << "a", "_", "1" >>, << " " >> }

\* String.prototype.trim (spaces only occur as whitespace in the model).
RECURSIVE Trim(_)
Trim(s) ==
  IF s = << >> THEN s
  ELSE IF s[1] = " " THEN Trim(Tail(s))
  ELSE IF s[Len(s)] = " " THEN Trim(SubSeq(s, 1, Len(s) - 1))
  ELSE s

\* /^[a-z0-9-]+$/.test(s)
IsAlbumId(s) ==
  /\ Len(s) > 0
  /\ \A k \in 1..Len(s) : IsLowerLetter(s[k]) \/ IsDigit(s[k]) \/ s[k] = "-"

\* The validate option of the album id prompt.
ValidateAlbumId(input) == Trim(input) # << >> /\ IsAlbumId(Trim(input))

\* The filter option of the album id prompt.
FilterAlbumId(input) == ToLowerCase(Trim(input))

\* An image buffer: what image-size finds in it.
Buffer(decodable, w, h) == [ decodable |-> decodable, width |-> w, height |-> h ]

StoredObject(key, ct, w, h) ==
  [ Key         |-> key,
    Body        |-> Buffer(TRUE, w, h),
    ContentType |-> ct,
    Metadata    |-> [ width |-> NumToString(w), height |-> NumToString(h) ] ]

Jpeg == << "i", "m", "a", "g", "e", "/", "j", "p", "g" >>

Gif == << "i", "m", "a", "g", "e", "/", "g", "i", "f" >>

Png == << "i", "m", "a", "g", "e", "/", "p", "n", "g" >>

Plain == << "t", "e", "x", "t" >>

KeyA1 == AlbumA \o << "/", "a", ".", "j", "p", "g" >>

KeyA2 == AlbumA \o << "/", "b", ".", "P", "N", "G" >>

KeyA3 == AlbumA \o << "/", "n", "o", "t", "e", "s", ".", "t", "x", "t" >>

KeyB1 == AlbumB \o << "/", "x", ".", "g", "i", "f" >>

RECURSIVE PutAll(_, _)
PutAll(store, objs) ==
  IF objs = << >> THEN store
  ELSE PutAll(PutObject(store, Head(objs)), Tail(objs))

SmallStores ==
  { << >>,
    PutAll(<< >>, << StoredObject(KeyB1, Gif, 10, 10) >>),
    PutAll(<< >>, << StoredObject(KeyB1, Gif, 10, 10),
                     StoredObject(KeyA3, Plain, 0, 0),
                     StoredObject(KeyA2, Png, 1200, 800),
                     StoredObject(KeyA1, Jpeg, 800, 600) >>) }

AlbumDoc(title, cover) ==
  [ title           |-> title,
    description     |-> << >>,
    cover_key       |-> cover,
    allow_downloads |-> TRUE,
    private         |-> FALSE ]

EmptyKv == [ k \in {} |-> Null ]

KvStores ==
  { EmptyKv,
    KvUpdate(EmptyKv, KvKey(AlbumA), AlbumDoc(<< "A" >>, KeyA1)),
    KvUpdate(KvUpdate(EmptyKv, KvKey(AlbumA), AlbumDoc(<< "A" >>, KeyA1)),
             KvKey(AlbumB), AlbumDoc(<< "B" >>, KeyB1)) }

----------------------------------------------------------------------------
(* Large albums: more images than one list page, more than one batch       *)

\* Number of images of the largest album of the model.
LargeAlbumSize == 1500

\* Decimal digits of n, zero-padded on the left to width w.
RECURSIVE Padded(_, _)
Padded(n, w) ==
  IF w = 0 THEN << >>
  ELSE Padded(n \div 10, w - 1) \o << DigitChars[(n % 10) + 1] >>

LargeKey(id, n) ==
  id \o << "/", "i", "m", "g" >> \o Padded(n, 4) \o << ".", "j", "p", "g" >>

LargeAlbum(id, n) == [ k \in 1..n |-> StoredObject(LargeKey(id, k), Jpeg, 800, 600) ]

LargeSizes == { MaxKeys - 1, MaxKeys, MaxKeys + 1, LargeAlbumSize }

LargeStores ==
  { LargeAlbum(AlbumA, n) \o << StoredObject(KeyB1, Gif, 10, 10) >> : n \in LargeSizes }

\* The keys of a bucket are strictly ascending.
StoreSorted == \A k \in 1..(Len(r2) - 1) : StrLess(r2[k].Key, r2[k + 1].Key)

----------------------------------------------------------------------------
(* Initial states                                                          *)

\* Number of script runs one behaviour may hold.
MaxRuns == 2

\* Per-key errors of one batch delete are drawn from its first keys.
MaxKeyErrors == 2

InitLocals ==
  /\ pc = "idle"
  /\ action = "none"
  /\ albumId = << >>
  /\ existingMetadata = Null
  /\ existingImages = << >>
  /\ confirmDelete = FALSE
  /\ imageKeys = << >>
  /\ i = 0
  /\ deletedCount = 0
  /\ manageMetadata = FALSE
  /\ kvMetadata = Null
  /\ uploadImages = FALSE
  /\ localBaseDir = << >>
  /\ selectedFolder = << >>
  /\ imageFiles = << >>
  /\ fileIndex = 0
  /\ uploadedCount = 0
  /\ calls = << >>
  /\ console = << >>
  /\ faults = 0
  /\ runs = 0
  /\ previous = Null
  /\ InitSingleAlbum

Init ==
  /\ kv \in KvStores
  /\ r2 \in SmallStores
  /\ cloudflare \in BOOLEAN
  /\ start = [ kv |-> kv, r2 |-> r2 ]
  /\ InitLocals

InitLarge ==
  /\ kv \in KvStores
  /\ r2 \in LargeStores
  /\ cloudflare \in BOOLEAN
  /\ start = [ kv |-> kv, r2 |-> r2 ]
  /\ InitLocals

----------------------------------------------------------------------------
(* The album CLI: main                                                     *)

\* main: the action and album id prompts, then the call of deleteAlbum or
\* manageAlbum.  An input that validate rejects is asked for again.
Main(act, input) ==
  /\ pc = "idle"
  /\ ValidateAlbumId(input)
  /\ action' = act
  /\ albumId' = FilterAlbumId(input)
  /\ pc' = IF act = "delete" THEN "delete_getKv" ELSE "manage_prompt"
  /\ runs' = runs + 1
  /\ calls' = << >>
  /\ console' = << >>
  /\ faults' = 0
  /\ start' = [ kv |-> kv, r2 |-> r2 ]
  /\ existingMetadata' = Null
  /\ existingImages' = << >>
  /\ confirmDelete' = FALSE
  /\ imageKeys' = << >>
  /\ i' = 0
  /\ deletedCount' = 0
  /\ manageMetadata' = FALSE
  /\ kvMetadata' = Null
  /\ uploadImages' = FALSE
  /\ localBaseDir' = << >>
  /\ selectedFolder' = << >>
  /\ imageFiles' = << >>
  /\ fileIndex' = 0
  /\ uploadedCount' = 0
  /\ UNCHANGED << kv, r2, cloudflare, singleAlbum, previous >>

\* main after the await of deleteAlbum or manageAlbum: when the function
\* has returned (the script is at "done"), main prints its closing "Done!".
MainReturns(out, next) ==
  IF next = "done" THEN Append(out, Msg("log", "Done", albumId)) ELSE out

\* The message deleteAlbum, manageAlbum or the uploader printed last: in a
\* finished run of the album CLI the one before the closing line of main.
ReturnMessage ==
  IF pc = "done" /\ action \in { "manage", "delete" } /\ Len(console) >= 2
  THEN console[Len(console) - 1]
  ELSE IF console = << >> THEN Msg("log", "", << >>)
  ELSE console[Len(console)]

----------------------------------------------------------------------------
(* The album CLI: deleteAlbum, deleteR2Images, deleteKvMetadata            *)

\* R2 allows batch deletion of up to 1000 objects at once
batchSize == 1000

\* deleteAlbum: const existingMetadata = await getKvMetadata(albumId)
DeleteGetKv(fails) ==
  /\ pc = "delete_getKv"
  /\ fails => cloudflare
  /\ existingMetadata' = GetKvMetadata(kv, cloudflare, albumId, fails)
  /\ calls' = IF cloudflare THEN Append(calls, Call("kv", "get", KvKey(albumId), ~fails))
              ELSE calls
  /\ console' = IF fails THEN Append(console, Msg("warn", "Error fetching KV metadata", albumId))
                ELSE console
  /\ faults' = IF fails THEN faults + 1 ELSE faults
  /\ pc' = AfterGetKv(fails, "delete_list")
  /\ UNCHANGED << kv, r2, cloudflare, singleAlbum, action, albumId, existingImages, confirmDelete,
                  imageKeys, i, deletedCount, uploadLocals, start, runs, previous, prompts >>

\* deleteAlbum: const existingImages = await listR2Images(albumId)
DeleteList(fails) ==
  /\ pc = "delete_list"
  /\ existingImages' = ListR2Images(r2, albumId, fails)
  /\ calls' = Append(calls, Call("r2", "list", albumId \o << "/" >>, ~fails))
  /\ console' = IF fails THEN Append(console, Msg("warn", "Could not list existing R2 images", albumId))
                ELSE console
  /\ faults' = IF fails THEN faults + 1 ELSE faults
  /\ pc' = "delete_check"
  /\ UNCHANGED << kv, r2, cloudflare, singleAlbum, action, albumId, existingMetadata, confirmDelete,
                  imageKeys, i, deletedCount, uploadLocals, start, runs, previous, prompts >>

\* Variant: the test asks for images where it should ask for none.
AlbumMissingWrongLength(metadata, images) == metadata = Null /\ Len(images) # 0

\* if (!existingMetadata && existingImages.length === 0)
AlbumMissing(metadata, images) == metadata = Null /\ Len(images) = 0

\* deleteAlbum: neither metadata nor images were found.
DeleteNotFound ==
  /\ pc = "delete_check"
  /\ AlbumMissing(existingMetadata, existingImages)
  /\ console' = MainReturns(Append(console, Msg("log", "Album not found", albumId)), "done")
  /\ pc' = "done"
  /\ UNCHANGED << kv, r2, cloudflare, singleAlbum, action, albumId, deleteLocals, uploadLocals,
                  calls, start, faults, runs, previous, prompts >>

\* Where deleteAlbum goes on after the image step.
AfterImages(metadata) == IF metadata # Null THEN "delete_kv" ELSE "delete_end"

\* Variant: the metadata step is left out when deleteR2Images returned false.
AfterDeleteR2ImagesChecked(ok, metadata) ==
  IF ok THEN AfterImages(metadata) ELSE "delete_end"

\* await deleteR2Images(albumId): the value returned is not looked at.
AfterDeleteR2Images(ok, metadata) == AfterImages(metadata)

\* Variant: the early return on a declined confirmation is missing.
AfterConfirmWithoutReturn(answer, images, metadata) ==
  IF Len(images) > 0 THEN "deleteR2_list" ELSE AfterImages(metadata)

\* Variant: the image step is left out and the metadata is deleted at once.
AfterConfirmMetadataFirst(answer, images, metadata) ==
  IF ~answer THEN "done" ELSE AfterImages(metadata)

\* Where deleteAlbum goes on after the confirmation prompt.
AfterConfirm(answer, images, metadata) ==
  IF ~answer THEN "done"
  ELSE IF Len(images) > 0 THEN "deleteR2_list"
  ELSE AfterImages(metadata)

\* deleteAlbum: the deletion summary and the confirmation prompt.
DeleteConfirm(answer) ==
  /\ pc = "delete_check"
  /\ ~AlbumMissing(existingMetadata, existingImages)
  /\ confirmDelete' = answer
  /\ console' =
       LET summary == Append(console,
                        Msg("log", "ALBUM DELETION SUMMARY",
                            [ metadata |-> existingMetadata # Null,
                              images   |-> Len(existingImages) ]))
           said    == IF answer THEN summary
                      ELSE Append(summary, Msg("log", "Deletion cancelled", albumId))
       IN  MainReturns(said, AfterConfirm(answer, existingImages, existingMetadata))
  /\ pc' = AfterConfirm(answer, existingImages, existingMetadata)
  /\ UNCHANGED << kv, r2, cloudflare, singleAlbum, action, albumId, existingMetadata, existingImages,
                  imageKeys, i, deletedCount, uploadLocals, calls, start, faults, runs, previous, prompts >>

\* deleteR2Images: const imageKeys = await listR2Images(albumId)
DeleteR2List(fails) ==
  /\ pc = "deleteR2_list"
  /\ LET keys == ListR2Images(r2, albumId, fails)
     IN  /\ imageKeys' = keys
         /\ console' =
              LET c1 == IF fails
                        THEN Append(console, Msg("warn", "Could not list existing R2 images", albumId))
                        ELSE console
              IN  IF Len(keys) = 0
                  THEN Append(c1, Msg("log", "No images found to delete", albumId))
                  ELSE Append(c1, Msg("log", "Found images to delete", Len(keys)))
         /\ pc' = IF Len(keys) = 0 THEN AfterDeleteR2Images(TRUE, existingMetadata)
                  ELSE "deleteR2_batch"
  /\ i' = 0
  /\ deletedCount' = 0
  /\ calls' = Append(calls, Call("r2", "list", albumId \o << "/" >>, ~fails))
  /\ faults' = IF fails THEN faults + 1 ELSE faults
  /\ UNCHANGED << kv, r2, cloudflare, singleAlbum, action, albumId, existingMetadata, existingImages,
                  confirmDelete, uploadLocals, start, runs, previous, prompts >>

\* The keys of a batch the service may report as failed.
ErrorCandidates(batch) == Range(SubSeq(batch, 1, Min(MaxKeyErrors, Len(batch))))

\* deleteR2Images: one turn of the batch loop.  The request fails as a whole
\* (the catch block ends deleteR2Images), or the response lists the keys
\* deleted and the keys in error.
DeleteR2Batch(fails, errors) ==
  /\ pc = "deleteR2_batch"
  /\ i < Len(imageKeys)
  /\ LET batch   == Slice(imageKeys, i, i + batchSize)
         deleted == { k \in Range(batch) : k \notin errors }
         count   == deletedCount + Cardinality(deleted)
         last    == ~(i + batchSize < Len(imageKeys))
         logged  == IF errors # {}
                    THEN Append(console, Msg("error", "Some deletions failed", errors))
                    ELSE console
     IN  /\ errors \subseteq ErrorCandidates(batch)
         /\ fails => errors = {}
         /\ calls' = Append(calls, Call("r2", "deleteObjects", batch, ~fails))
         /\ IF fails
            THEN /\ console' = Append(console, Msg("error", "Error deleting R2 images", albumId))
                 /\ pc' = AfterDeleteR2Images(FALSE, existingMetadata)
                 /\ faults' = faults + 1
                 /\ UNCHANGED << r2, i, deletedCount >>
            ELSE /\ r2' = DeleteObjects(r2, deleted)
                 /\ deletedCount' = count
                 /\ i' = i + batchSize
                 /\ faults' = faults + Cardinality(errors)
                 /\ console' = IF last
                               THEN Append(logged, Msg("log", "Successfully deleted images", count))
                               ELSE logged
                 /\ pc' = IF last THEN AfterDeleteR2Images(TRUE, existingMetadata)
                          ELSE "deleteR2_batch"
  /\ UNCHANGED << kv, cloudflare, singleAlbum, action, albumId, existingMetadata, existingImages,
                  confirmDelete, imageKeys, uploadLocals, start, runs, previous, prompts >>

\* The ways the metadata delete request ends: it succeeds, it throws an error
\* with status 404 or with code 10009 in its message, or it throws another
\* error.
KvDeleteOutcomes == { "ok", "notFound", "error" }

\* deleteAlbum: await deleteKvMetadata(albumId).  A request that throws
\* leaves the document as it is; the catch block prints a plain line for the
\* 404 / 10009 error and an error line for any other.
DeleteKv(outcome) ==
  /\ pc = "delete_kv"
  /\ outcome # "ok" => cloudflare
  /\ IF ~cloudflare
     THEN /\ console' = Append(console, Msg("warn", "Missing Cloudflare credentials", albumId))
          /\ UNCHANGED << kv, calls, faults >>
     ELSE /\ calls' = Append(calls, Call("kv", "delete", KvKey(albumId), outcome = "ok"))
          /\ IF outcome = "ok"
             THEN /\ kv' = KvDelete(kv, KvKey(albumId))
                  /\ console' = Append(console, Msg("log", "Successfully deleted KV metadata", albumId))
                  /\ UNCHANGED faults
             ELSE /\ console' = Append(console,
                                       IF outcome = "notFound"
                                       THEN Msg("log", "No KV metadata found", albumId)
                                       ELSE Msg("error", "Error deleting KV metadata", albumId))
                  /\ faults' = faults + 1
                  /\ UNCHANGED kv
  /\ pc' = "delete_end"
  /\ UNCHANGED << r2, cloudflare, singleAlbum, action, albumId, deleteLocals, uploadLocals, start, runs, previous, prompts >>

\* deleteAlbum: the closing message.
DeleteEnd ==
  /\ pc = "delete_end"
  /\ console' = MainReturns(Append(console, Msg("log", "Album has been completely deleted",
                                                 albumId)), "done")
  /\ pc' = "done"
  /\ UNCHANGED << kv, r2, cloudflare, singleAlbum, action, albumId, deleteLocals, uploadLocals,
                  calls, start, faults, runs, previous, prompts >>

DeleteStep ==
  \/ \E fails \in BOOLEAN : DeleteGetKv(fails)
  \/ \E fails \in BOOLEAN : DeleteList(fails)
  \/ DeleteNotFound
  \/ \E answer \in BOOLEAN : DeleteConfirm(answer)
  \/ \E fails \in BOOLEAN : DeleteR2List(fails)
  \/ \E fails \in BOOLEAN, errors \in SUBSET ErrorCandidates(imageKeys) : DeleteR2Batch(fails, errors)
  \/ \E outcome \in KvDeleteOutcomes : DeleteKv(outcome)
  \/ DeleteEnd

----------------------------------------------------------------------------
(* The local file system (read only)                                       *)

BaseLocal == << "l", "o", "c", "a", "l" >>

BaseNew == << "n", "e", "w" >>

\* Another spelling of the directory "local".
BaseLocalDot == << ".", "/", "l", "o", "c", "a", "l", "/" >>

\* The working directory, which holds "local" and "new", and a folder of
\* "local" given as the base.
BaseCwd == << "." >>

BaseMixed == << "l", "o", "c", "a", "l", "/", "m", "i", "x", "e", "d" >>

\* What the operator may enter at the base directory prompt (free text that
\* names an existing directory; anything else is asked for again).
BaseDirInputs == { BaseLocal, BaseLocalDot, BaseNew, BaseCwd, BaseMixed }

FolderSummer == << "S", "u", "m", "m", "e", "r", " ", "T", "r", "i", "p" >>

FolderPortrait == << "p", "o", "r", "t", "r", "a", "i", "t", "_", "s", "e", "t" >>

FolderDocs == << "d", "o", "c", "s" >>

FolderMixed == << "m", "i", "x", "e", "d" >>

Entry(name, isDirectory, bytes) ==
  [ name |-> name, isDirectory |-> isDirectory, bytes |-> bytes ]

NoBytes == Buffer(FALSE, 0, 0)

\* The folders below the base directories, each with its entries.  The order
\* they are written in here is not the order of a listing: see ReadDir.
LocalFolders ==
  << [ base |-> BaseLocal, name |-> FolderDocs,
       entries |-> << Entry(<< "n", "o", "t", "e", "s", ".", "t", "x", "t" >>, FALSE, NoBytes) >> ],
     [ base |-> BaseLocal, name |-> FolderMixed,
       entries |-> << Entry(<< "a", ".", "j", "p", "g" >>, FALSE, Buffer(TRUE, 640, 480)),
                      Entry(<< "d", "i", "r", ".", "j", "p", "g" >>, TRUE, NoBytes),
                      Entry(<< "z", ".", "a", "v", "i", "f" >>, FALSE, Buffer(TRUE, 30, 20)) >> ],
     [ base |-> BaseLocal, name |-> FolderPortrait,
       entries |-> << Entry(<< "P", "o", "r", "t", "r", "a", "i", "t", "-", "1", ".", "J", "P", "G" >>,
                            FALSE, Buffer(FALSE, 0, 0)),
                      Entry(<< "s", "q", "u", "a", "r", "e", ".", "g", "i", "f" >>,
                            FALSE, Buffer(TRUE, 0, 500)) >> ],
     [ base |-> BaseLocal, name |-> FolderSummer,
       entries |-> << Entry(<< "a", ".", "j", "p", "g" >>, FALSE, Buffer(TRUE, 800, 600)),
                      Entry(<< "b", ".", "P", "N", "G" >>, FALSE, Buffer(FALSE, 0, 0)),
                      Entry(<< "n", "o", "t", "e", "s", ".", "t", "x", "t" >>, FALSE, NoBytes) >> ] >>

\* The segments of a path between its "/" separators (empty segments kept).
RECURSIVE SplitPath(_)
SplitPath(p) ==
  IF \A k \in 1..Len(p) : p[k] # "/"
  THEN << p >>
  ELSE LET at == CHOOSE k \in 1..Len(p) : p[k] = "/" /\ \A j \in 1..(k - 1) : p[j] # "/"
       IN  << SubSeq(p, 1, at - 1) >> \o SplitPath(SubSeq(p, at + 1, Len(p)))

\* normalizeString of path.posix: empty and "." segments are dropped, ".."
\* removes the segment before it, or is kept when there is none to remove
\* and the path is relative.
RECURSIVE NormalizeSegments(_, _, _)
NormalizeSegments(segments, kept, allowAboveRoot) ==
  IF segments = << >> THEN kept
  ELSE LET seg  == Head(segments)
           rest == Tail(segments)
       IN  IF seg = << >> \/ seg = << "." >>
           THEN NormalizeSegments(rest, kept, allowAboveRoot)
           ELSE IF seg = << ".", "." >>
           THEN IF kept # << >> /\ kept[Len(kept)] # << ".", "." >>
                THEN NormalizeSegments(rest, SubSeq(kept, 1, Len(kept) - 1), allowAboveRoot)
                ELSE IF allowAboveRoot
                THEN NormalizeSegments(rest, Append(kept, seg), allowAboveRoot)
                ELSE NormalizeSegments(rest, kept, allowAboveRoot)
           ELSE NormalizeSegments(rest, Append(kept, seg), allowAboveRoot)

\* The segments written with "/" between them.
RECURSIVE JoinSegments(_)
JoinSegments(segments) ==
  IF segments = << >> THEN << >>
  ELSE IF Len(segments) = 1 THEN segments[1]
  ELSE segments[1] \o << "/" >> \o JoinSegments(Tail(segments))

\* path.posix.normalize(p)
Normalize(p) ==
  IF p = << >> THEN << "." >>
  ELSE LET isAbsolute        == p[1] = "/"
           trailingSeparator == p[Len(p)] = "/"
           body == JoinSegments(NormalizeSegments(SplitPath(p), << >>, ~isAbsolute))
       IN  IF body = << >>
           THEN IF isAbsolute THEN << "/" >>
                ELSE IF trailingSeparator THEN << ".", "/" >> ELSE << "." >>
           ELSE (IF isAbsolute THEN << "/" >> ELSE << >>) \o body
                \o (IF trailingSeparator THEN << "/" >> ELSE << >>)

\* path.join(a, b): the non-empty arguments joined with "/", normalized.
PathJoin(a, b) ==
  IF a = << >> /\ b = << >> THEN << "." >>
  ELSE IF a = << >> THEN Normalize(b)
  ELSE IF b = << >> THEN Normalize(a)
  ELSE Normalize(a \o << "/" >> \o b)

\* The directory a path names to the file system: spellings that differ in
\* "." segments, repeated or trailing separators name the same directory.
DirectoryAt(path) ==
  LET n == Normalize(path)
  IN  IF Len(n) > 1 /\ n[Len(n)] = "/" THEN SubSeq(n, 1, Len(n) - 1) ELSE n

\* The directory tree below the working directory: the working directory
\* holds the base directories, a base directory its folders, a folder its
\* entries, and an entry that is a directory holds nothing.  The entries of
\* the directory a path names; none for a path that names no directory.
EntriesOf(path) ==
  LET dir        == DirectoryAt(path)
      AsEntry(n) == Entry(n, TRUE, NoBytes)
      IsDir(f)   == PathJoin(f.base, f.name) = dir
  IN  IF dir = BaseCwd
      THEN { AsEntry(BaseLocal), AsEntry(BaseNew) }
      ELSE IF dir \in { BaseLocal, BaseNew }
      THEN { AsEntry(f.name) : f \in { g \in Range(LocalFolders) : g.base = dir } }
      ELSE IF \E f \in Range(LocalFolders) : IsDir(f)
      THEN Range((CHOOSE f \in Range(LocalFolders) : IsDir(f)).entries)
      ELSE {}

\* The arrays that hold every element of a set once: the results a listing
\* of a directory can have.  The file system decides the order and the
\* scripts do not sort.
Listings(S) == { l \in [ 1..Cardinality(S) -> S ] : Range(l) = S }

\* glob("*", {cwd: base}) kept to the entries fs.stat calls directories: the
\* album folders the prompt offers, whatever order glob returned them in.
AlbumFolders(base) == { e.name : e \in { d \in EntriesOf(base) : d.isDirectory } }

\* fs.readdir(path): the arrays it may return.
ReadDir(path) == Listings({ e.name : e \in EntriesOf(path) })

\* The entry fs.readFile(path.join(folder, filename)) opens.
FileAt(path, filename) ==
  CHOOSE e \in EntriesOf(path) : e.name = filename

\* files.filter((filename) => /\.(jpeg|jpg|png|gif|webp|avif)$/i.test(filename))
ImageFilesOf(files) == FilterSeq(files, IsImageName)

----------------------------------------------------------------------------
(* Image dimensions and the put command                                    *)

\* The try block around sizeOf(fileBuffer): the dimensions found, or none
\* when image-size throws or a dimension is missing or zero.
ValidDimensions(bytes) == bytes.decodable /\ bytes.width > 0 /\ bytes.height > 0

\* manageAlbum: width and height attached to the object.
ManageDimensions(filename, bytes) ==
  IF ValidDimensions(bytes)
  THEN [ width |-> bytes.width, height |-> bytes.height ]
  ELSE [ width |-> 1200, height |-> 800 ]

\* Index of the last "." of a name, 0 when it has none.
LastDot(name) ==
  LET dots == { k \in 1..Len(name) : name[k] = "." }
  IN  IF dots = {} THEN 0 ELSE CHOOSE k \in dots : \A m \in dots : m <= k

\* path.extname(filename) for a name without directory part.
ExtName(name) ==
  IF LastDot(name) <= 1 THEN << >> ELSE SubSeq(name, LastDot(name), Len(name))

\* ContentType: `image/${fileExtension.substring(1)}`
ContentTypeOf(filename) ==
  LET fileExtension == ToLowerCase(ExtName(filename))
  IN  << "i", "m", "a", "g", "e", "/" >> \o SubSeq(fileExtension, 2, Len(fileExtension))

\* new PutObjectCommand({Bucket, Key, Body, ContentType, Metadata})
PutObjectCommand(id, filename, bytes, dims) ==
  [ Key         |-> id \o << "/" >> \o filename,
    Body        |-> bytes,
    ContentType |-> ContentTypeOf(filename),
    Metadata    |-> [ width  |-> NumToString(dims.width),
                      height |-> NumToString(dims.height) ] ]

\* Variant: the key carries the number of the run, so no run overwrites the
\* objects of another.
ManagePutCommandRunKey(id, filename, bytes) ==
  PutObjectCommand(id, NumToString(runs) \o << "-" >> \o filename, bytes,
                   ManageDimensions(filename, bytes))

\* The put command manageAlbum builds for a file.
ManagePutCommand(id, filename, bytes) ==
  PutObjectCommand(id, filename, bytes, ManageDimensions(filename, bytes))

----------------------------------------------------------------------------
(* The album CLI: manageAlbum, updateKvMetadata                            *)

\* s.replace(pattern, replacement) with a string pattern: the first
\* occurrence only.
ReplaceFirst(s, pattern, replacement) ==
  LET at == { k \in 0..(Len(s) - Len(pattern)) : SubSeq(s, k + 1, k + Len(pattern)) = pattern }
  IN  IF at = {} THEN s
      ELSE LET k == CHOOSE m \in at : \A n \in at : m <= n
           IN  SubSeq(s, 1, k) \o replacement \o SubSeq(s, k + Len(pattern) + 1, Len(s))

\* manageAlbum: the prompt "Would you like to update/add KV metadata".
ManagePrompt(answer) ==
  /\ pc = "manage_prompt"
  /\ manageMetadata' = answer
  /\ pc' = IF answer THEN "manage_getKv" ELSE "manage_uploadPrompt"
  /\ UNCHANGED << kv, r2, cloudflare, singleAlbum, action, albumId, deleteLocals, uploadLocals,
                  calls, console, start, faults, runs, previous, uploadImages >>

\* manageAlbum: const existingMetadata = await getKvMetadata(albumId)
ManageGetKv(fails) ==
  /\ pc = "manage_getKv"
  /\ fails => cloudflare
  /\ existingMetadata' = GetKvMetadata(kv, cloudflare, albumId, fails)
  /\ calls' = IF cloudflare THEN Append(calls, Call("kv", "get", KvKey(albumId), ~fails))
              ELSE calls
  /\ console' = IF fails THEN Append(console, Msg("warn", "Error fetching KV metadata", albumId))
                ELSE console
  /\ faults' = IF fails THEN faults + 1 ELSE faults
  /\ pc' = AfterGetKv(fails, "manage_list")
  /\ UNCHANGED << kv, r2, cloudflare, singleAlbum, action, albumId, existingImages, confirmDelete,
                  imageKeys, i, deletedCount, uploadLocals, start, runs, previous, prompts >>

\* manageAlbum: const existingImages = await listR2Images(albumId), for the
\* cover selection.
ManageList(fails) ==
  /\ pc = "manage_list"
  /\ existingImages' = ListR2Images(r2, albumId, fails)
  /\ calls' = Append(calls, Call("r2", "list", albumId \o << "/" >>, ~fails))
  /\ console' = IF fails THEN Append(console, Msg("warn", "Could not list existing R2 images", albumId))
                ELSE console
  /\ faults' = IF fails THEN faults + 1 ELSE faults
  /\ pc' = "manage_answers"
  /\ UNCHANGED << kv, r2, cloudflare, singleAlbum, action, albumId, existingMetadata, confirmDelete,
                  imageKeys, i, deletedCount, uploadLocals, start, runs, previous, prompts >>

\* The default of the title question.
DefaultTitle(metadata, id) ==
  IF metadata # Null /\ metadata.title # << >> THEN metadata.title
  ELSE ReplaceChars(id, { "-" }, " ")

\* The default of the description question.
DefaultDescription(metadata) ==
  IF metadata # Null THEN metadata.description ELSE << >>

\* The answers the cover question accepts: one of the listed images when
\* there are any, else the default of the free-text question.
CoverChoices(metadata, images, id) ==
  LET Filename(key) == ReplaceFirst(key, id \o << "/" >>, << >>)
      imageFilenames == MapSeq(images, Filename)
  IN  IF Len(imageFilenames) > 0
      THEN { id \o << "/" >> \o imageFilenames[k] : k \in 1..Len(imageFilenames) }
      ELSE { IF metadata # Null /\ metadata.cover_key # << >> THEN metadata.cover_key
             ELSE id \o << "/", "c", "o", "v", "e", "r", ".", "j", "p", "g" >> }

\* The default of the "private" question.
DefaultPrivate(metadata) ==
  IF metadata # Null THEN metadata.private ELSE FALSE

TitleInputs(metadata, id) == { DefaultTitle(metadata, id), << "N", "e", "w" >> }

\* manageAlbum: the metadata questions and the prompt "Save this metadata".
ManageAnswers(title, coverImage, allowDownloads, confirmKv) ==
  /\ pc = "manage_answers"
  /\ title \in TitleInputs(existingMetadata, albumId)
  /\ coverImage \in CoverChoices(existingMetadata, existingImages, albumId)
  /\ kvMetadata' = [ title           |-> title,
                     description     |-> DefaultDescription(existingMetadata),
                     cover_key       |-> coverImage,
                     allow_downloads |-> allowDownloads,
                     private         |-> DefaultPrivate(existingMetadata) ]
  /\ pc' = IF confirmKv THEN "manage_updateKv" ELSE "manage_uploadPrompt"
  /\ UNCHANGED << kv, r2, cloudflare, singleAlbum, action, albumId, deleteLocals,
                  localBaseDir, selectedFolder, imageFiles, fileIndex, uploadedCount,
                  calls, console, start, faults, runs, previous, prompts >>

\* manageAlbum: await updateKvMetadata(albumId, kvMetadata)
ManageUpdateKv(fails) ==
  /\ pc = "manage_updateKv"
  /\ fails => cloudflare
  /\ IF ~cloudflare
     THEN /\ console' = Append(console, Msg("error", "Missing Cloudflare credentials", albumId))
          /\ UNCHANGED << kv, calls, faults >>
     ELSE /\ calls' = Append(calls, Call("kv", "update", KvKey(albumId), ~fails))
          /\ IF fails
             THEN /\ console' = Append(console, Msg("error", "Error updating KV metadata", albumId))
                  /\ faults' = faults + 1
                  /\ UNCHANGED kv
             ELSE /\ kv' = KvUpdate(kv, KvKey(albumId), kvMetadata)
                  /\ console' = Append(console, Msg("log", "Successfully updated KV metadata", albumId))
                  /\ UNCHANGED faults
  /\ pc' = "manage_uploadPrompt"
  /\ UNCHANGED << r2, cloudflare, singleAlbum, action, albumId, deleteLocals, uploadLocals, start, runs, previous, prompts >>

\* manageAlbum: the prompt "Would you like to upload images".
\* Variant: the answer to the upload prompt is not looked at.
AfterUploadPromptIgnoresAnswer(answer) == "manage_baseDir"

\* Where manageAlbum goes on after the upload prompt.
AfterUploadPrompt(answer) == IF answer THEN "manage_baseDir" ELSE "done"

ManageUploadPrompt(answer) ==
  /\ pc = "manage_uploadPrompt"
  /\ uploadImages' = answer
  /\ console' = MainReturns(IF AfterUploadPrompt(answer) = "done"
                            THEN Append(console, Msg("log", "Done", albumId))
                            ELSE console,
                            AfterUploadPrompt(answer))
  /\ pc' = AfterUploadPrompt(answer)
  /\ UNCHANGED << kv, r2, cloudflare, singleAlbum, action, albumId, deleteLocals, uploadLocals,
                  calls, start, faults, runs, previous, manageMetadata >>

\* manageAlbum: the base directory prompt and the search for folders.
ManageBaseDir(input) ==
  /\ pc = "manage_baseDir"
  /\ localBaseDir' = input
  /\ IF AlbumFolders(input) = {}
     THEN /\ console' = MainReturns(Append(console, Msg("error", "No folders found", input)),
                                     "done")
          /\ pc' = "done"
     ELSE /\ pc' = "manage_folder"
          /\ UNCHANGED console
  /\ UNCHANGED << kv, r2, cloudflare, singleAlbum, action, albumId, deleteLocals, kvMetadata,
                  selectedFolder, imageFiles, fileIndex, uploadedCount,
                  calls, start, faults, runs, previous, prompts >>

\* manageAlbum: the folder prompt.
ManageSelectFolder(folder) ==
  /\ pc = "manage_folder"
  /\ folder \in AlbumFolders(localBaseDir)
  /\ selectedFolder' = folder
  /\ pc' = "manage_confirmUpload"
  /\ UNCHANGED << kv, r2, cloudflare, singleAlbum, action, albumId, deleteLocals, kvMetadata,
                  localBaseDir, imageFiles, fileIndex, uploadedCount,
                  calls, console, start, faults, runs, previous, prompts >>

\* Variant: the return after the warning is missing.
AfterFilterWithoutReturn(found) == "manage_upload"

\* if (imageFiles.length === 0) { console.warn(...); return; }
AfterFilter(found) == IF Len(found) = 0 THEN "done" ELSE "manage_upload"

\* manageAlbum: the prompt "Proceed with uploading", then readdir and the
\* extension filter.
ManageConfirmUpload(confirmUpload) ==
  /\ pc = "manage_confirmUpload"
  /\ \E files \in ReadDir(PathJoin(localBaseDir, selectedFolder)) :
     LET localFolderPath == PathJoin(localBaseDir, selectedFolder)
         found == ImageFilesOf(files)
     IN  IF ~confirmUpload
         THEN /\ console' = MainReturns(Append(console, Msg("log", "Upload cancelled", albumId)),
                                         "done")
              /\ pc' = "done"
              /\ UNCHANGED imageFiles
         ELSE /\ imageFiles' = found
              /\ console' = MainReturns(IF Len(found) = 0
                                        THEN Append(console, Msg("warn", "No image files found",
                                                                 localFolderPath))
                                        ELSE console,
                                        AfterFilter(found))
              /\ pc' = AfterFilter(found)
  /\ fileIndex' = 0
  /\ uploadedCount' = 0
  /\ UNCHANGED << kv, r2, cloudflare, singleAlbum, action, albumId, deleteLocals, kvMetadata,
                  localBaseDir, selectedFolder, calls, start, faults, runs, previous, prompts >>

\* uploadedCount++ in the try block of the put.
CountUploaded(count, fails) == IF fails THEN count ELSE count + 1

\* manageAlbum: one turn of the upload loop.  readFile throws for an entry
\* that is no regular file, which ends the script; a failed put is caught.
ManageUploadFile(fails) ==
  /\ pc = "manage_upload"
  /\ fileIndex < Len(imageFiles)
  /\ LET filename == imageFiles[fileIndex + 1]
         file     == FileAt(PathJoin(localBaseDir, selectedFolder), filename)
         command  == ManagePutCommand(albumId, filename, file.bytes)
     IN  IF file.isDirectory
         THEN /\ ~fails
              /\ console' = Append(console, Msg("error", "Unhandled rejection", filename))
              /\ pc' = "crashed"
              /\ UNCHANGED << r2, calls, fileIndex, uploadedCount, faults >>
         ELSE /\ calls' = Append(calls, Call("r2", "put", command, ~fails))
              /\ fileIndex' = fileIndex + 1
              /\ pc' = "manage_upload"
              /\ uploadedCount' = CountUploaded(uploadedCount, fails)
              /\ IF fails
                 THEN /\ console' = Append(console, Msg("error", "Failed to upload", filename))
                      /\ faults' = faults + 1
                      /\ UNCHANGED r2
                 ELSE /\ r2' = PutObject(r2, command)
                      /\ console' = Append(console, Msg("log", "Uploaded", filename))
                      /\ UNCHANGED faults
  /\ UNCHANGED << kv, cloudflare, singleAlbum, action, albumId, deleteLocals, kvMetadata,
                  localBaseDir, selectedFolder, imageFiles, start, runs, previous, prompts >>

\* The closing tallies of the upload loop.
Tallies(files, uploaded) ==
  [ processed |-> Len(files), succeeded |-> uploaded, failed |-> Len(files) - uploaded ]

\* manageAlbum: the loop is over, the tallies are printed.
ManageReport ==
  /\ pc = "manage_upload"
  /\ fileIndex = Len(imageFiles)
  /\ console' = MainReturns(Append(console, Msg("log", "Upload Complete",
                                                 Tallies(imageFiles, uploadedCount))), "done")
  /\ pc' = "done"
  /\ UNCHANGED << kv, r2, cloudflare, singleAlbum, action, albumId, deleteLocals, uploadLocals,
                  calls, start, faults, runs, previous, prompts >>

ManageStep ==
  \/ \E answer \in BOOLEAN : ManagePrompt(answer)
  \/ \E fails \in BOOLEAN : ManageGetKv(fails)
  \/ \E fails \in BOOLEAN : ManageList(fails)
  \/ \E title \in TitleInputs(existingMetadata, albumId),
        coverImage \in CoverChoices(existingMetadata, existingImages, albumId),
        allowDownloads \in BOOLEAN, confirmKv \in BOOLEAN :
          ManageAnswers(title, coverImage, allowDownloads, confirmKv)
  \/ \E fails \in BOOLEAN : ManageUpdateKv(fails)
  \/ \E answer \in BOOLEAN : ManageUploadPrompt(answer)
  \/ \E input \in BaseDirInputs : ManageBaseDir(input)
  \/ \E folder \in AlbumFolders(localBaseDir) : ManageSelectFolder(folder)
  \/ \E confirmUpload \in BOOLEAN : ManageConfirmUpload(confirmUpload)
  \/ \E fails \in BOOLEAN : ManageUploadFile(fails)
  \/ ManageReport

----------------------------------------------------------------------------
(* The bulk uploader (src/uploader/main.js)                                *)

IsIdChar(c) == IsLowerLetter(c) \/ IsDigit(c) \/ c = "-"

\* s.replace(/[^a-z0-9-]/g, '-')
ReplaceDisallowed(s) == [ k \in 1..Len(s) |-> IF IsIdChar(s[k]) THEN s[k] ELSE "-" ]

\* Variant: runs of hyphens are not collapsed.
KeepHyphens(s) == s

\* s.replace(/--+/g, '-'): of a run of hyphens the first one stays.
CollapseHyphens(s) ==
  LET positions == [ k \in 1..Len(s) |-> k ]
      Stays(k)  == ~(s[k] = "-" /\ k > 1 /\ s[k - 1] = "-")
      At(k)     == s[k]
  IN  MapSeq(FilterSeq(positions, Stays), At)

\* s.replace(/^-|-$/g, ''): a hyphen at the start and a hyphen at the end go.
StripHyphenEnds(s) ==
  LET lead  == IF Len(s) >= 1 /\ s[1] = "-" THEN 1 ELSE 0
      trail == IF Len(s) - lead >= 1 /\ s[Len(s)] = "-" THEN 1 ELSE 0
  IN  SubSeq(s, 1 + lead, Len(s) - trail)

\* The album id the uploader derives from a folder name.
FolderId(folderName) ==
  StripHyphenEnds(CollapseHyphens(ReplaceDisallowed(ToLowerCase(folderName))))

Portrait == << "p", "o", "r", "t", "r", "a", "i", "t" >>

Square == << "s", "q", "u", "a", "r", "e" >>

\* uploader: width and height attached to the object.
UploaderDimensions(filename, bytes) ==
  IF ValidDimensions(bytes)
  THEN [ width |-> bytes.width, height |-> bytes.height ]
  ELSE IF Includes(ToLowerCase(filename), Portrait) THEN [ width |-> 800, height |-> 1200 ]
  ELSE IF Includes(ToLowerCase(filename), Square) THEN [ width |-> 1000, height |-> 1000 ]
  ELSE [ width |-> 1200, height |-> 800 ]

\* The put command the uploader builds for a file.
UploaderPutCommand(id, filename, bytes) ==
  PutObjectCommand(id, filename, bytes, UploaderDimensions(filename, bytes))

\* The example metadata the uploader prints at the end.
AlbumKvData(localAlbumName, id, files, uploaded) ==
  [ title       |-> ReplaceChars(localAlbumName, { "-", "_" }, " "),
    description |-> << "A", " ", "c", "o", "l", "l", "e", "c", "t", "i", "o", "n", " ", "o", "f", " " >>
                    \o NumToString(uploaded)
                    \o << " ", "p", "h", "o", "t", "o", "s", " ", "f", "r", "o", "m", " " >>
                    \o localAlbumName \o << "." >>,
    cover_key   |-> id \o << "/" >> \o
                    (IF Len(files) > 0 THEN files[1]
                     ELSE << "d", "e", "f", "a", "u", "l", "t", "-", "c", "o", "v", "e", "r",
                             ".", "j", "p", "g" >>) ]

\* uploader main: the base directory prompt and the search for folders.
UploaderStart(input) ==
  /\ pc = "idle"
  /\ action' = "upload"
  /\ localBaseDir' = input
  /\ IF AlbumFolders(input) = {}
     THEN /\ console' = << Msg("error", "No album folders found", input) >>
          /\ pc' = "exited"
     ELSE /\ console' = << >>
          /\ pc' = "upload_folder"
  /\ runs' = runs + 1
  /\ calls' = << >>
  /\ faults' = 0
  /\ start' = [ kv |-> kv, r2 |-> r2 ]
  /\ albumId' = << >>
  /\ existingMetadata' = Null
  /\ existingImages' = << >>
  /\ confirmDelete' = FALSE
  /\ imageKeys' = << >>
  /\ i' = 0
  /\ deletedCount' = 0
  /\ manageMetadata' = FALSE
  /\ kvMetadata' = Null
  /\ uploadImages' = FALSE
  /\ selectedFolder' = << >>
  /\ imageFiles' = << >>
  /\ fileIndex' = 0
  /\ uploadedCount' = 0
  /\ UNCHANGED << kv, r2, cloudflare, singleAlbum, previous >>

\* uploader main: the folder prompt; each choice carries the derived id.
UploaderSelectAlbum(folderName) ==
  /\ pc = "upload_folder"
  /\ folderName \in AlbumFolders(localBaseDir)
  /\ selectedFolder' = folderName
  /\ albumId' = FolderId(folderName)
  /\ pc' = "upload_confirm"
  /\ UNCHANGED << kv, r2, cloudflare, singleAlbum, action, deleteLocals, kvMetadata,
                  localBaseDir, imageFiles, fileIndex, uploadedCount,
                  calls, console, start, faults, runs, previous, prompts >>

\* uploader main: the prompt "Proceed with uploading", then readdir and the
\* extension filter.
UploaderConfirm(confirmUpload) ==
  /\ pc = "upload_confirm"
  /\ \E files \in ReadDir(PathJoin(localBaseDir, selectedFolder)) :
     LET localAlbumPath == PathJoin(localBaseDir, selectedFolder)
         found == ImageFilesOf(files)
     IN  IF ~confirmUpload
         THEN /\ console' = Append(console, Msg("log", "Upload cancelled", albumId))
              /\ pc' = "exited"
              /\ UNCHANGED imageFiles
         ELSE /\ imageFiles' = found
              /\ IF Len(found) = 0
                 THEN /\ console' = Append(console, Msg("warn", "No image files found", localAlbumPath))
                      /\ pc' = "exited"
                 ELSE /\ pc' = "upload_loop"
                      /\ UNCHANGED console
  /\ fileIndex' = 0
  /\ uploadedCount' = 0
  /\ UNCHANGED << kv, r2, cloudflare, singleAlbum, action, albumId, deleteLocals, kvMetadata,
                  localBaseDir, selectedFolder, calls, start, faults, runs, previous, prompts >>

\* uploader main: one turn of the upload loop.
UploaderUploadFile(fails) ==
  /\ pc = "upload_loop"
  /\ fileIndex < Len(imageFiles)
  /\ LET filename == imageFiles[fileIndex + 1]
         file     == FileAt(PathJoin(localBaseDir, selectedFolder), filename)
         command  == UploaderPutCommand(albumId, filename, file.bytes)
     IN  IF file.isDirectory
         THEN /\ ~fails
              /\ console' = Append(console, Msg("error", "Unhandled rejection", filename))
              /\ pc' = "crashed"
              /\ UNCHANGED << r2, calls, fileIndex, uploadedCount, faults >>
         ELSE /\ calls' = Append(calls, Call("r2", "put", command, ~fails))
              /\ fileIndex' = fileIndex + 1
              /\ pc' = "upload_loop"
              /\ uploadedCount' = CountUploaded(uploadedCount, fails)
              /\ IF fails
                 THEN /\ console' = Append(console, Msg("error", "Failed to upload", filename))
                      /\ faults' = faults + 1
                      /\ UNCHANGED r2
                 ELSE /\ r2' = PutObject(r2, command)
                      /\ console' = Append(console, Msg("log", "Uploaded", filename))
                      /\ UNCHANGED faults
  /\ UNCHANGED << kv, cloudflare, singleAlbum, action, albumId, deleteLocals, kvMetadata,
                  localBaseDir, selectedFolder, imageFiles, start, runs, previous, prompts >>

\* Variant: the example metadata is saved instead of only printed.
UploaderReportSavesKv ==
  /\ pc = "upload_loop"
  /\ fileIndex = Len(imageFiles)
  /\ kv' = KvUpdate(kv, KvKey(albumId),
                    AlbumKvData(selectedFolder, albumId, imageFiles, uploadedCount))
  /\ console' = console \o
       << Msg("log", "Upload Complete", Tallies(imageFiles, uploadedCount)),
          Msg("log", "KV Update Reminder",
              AlbumKvData(selectedFolder, albumId, imageFiles, uploadedCount)) >>
  /\ pc' = "done"
  /\ UNCHANGED << r2, cloudflare, singleAlbum, action, albumId, deleteLocals, uploadLocals,
                  calls, start, faults, runs, previous, prompts >>

\* uploader main: the tallies and the KV update reminder.
UploaderReport ==
  /\ pc = "upload_loop"
  /\ fileIndex = Len(imageFiles)
  /\ console' = console \o
       << Msg("log", "Upload Complete", Tallies(imageFiles, uploadedCount)),
          Msg("log", "KV Update Reminder",
              AlbumKvData(selectedFolder, albumId, imageFiles, uploadedCount)) >>
  /\ pc' = "done"
  /\ UNCHANGED << kv, r2, cloudflare, singleAlbum, action, albumId, deleteLocals, uploadLocals,
                  calls, start, faults, runs, previous, prompts >>

UploaderStep ==
  \/ \E input \in BaseDirInputs : UploaderStart(input)
  \/ \E folderName \in AlbumFolders(localBaseDir) : UploaderSelectAlbum(folderName)
  \/ \E confirmUpload \in BOOLEAN : UploaderConfirm(confirmUpload)
  \/ \E fails \in BOOLEAN : UploaderUploadFile(fails)
  \/ UploaderReport

----------------------------------------------------------------------------
(* The single-album view (src/unnamed/part_002): fetchAlbumData            *)
(* Every await is a point at which other handlers may run; a call that is  *)
(* waiting is an entry of requests or of zipTasks with the await it is at. *)

MaxFetches == 2

MaxClicks == 2

IdA == << "a" >>

IdB == << "b" >>

IdE == << "e" >>

\* The values window.location.hash takes.
HashInputs == { << >>, << "#" >>, << "#" >> \o IdA, << "#" >> \o IdB, << "#" >> \o IdE }

\* getAlbumIdFromHash
GetAlbumIdFromHash(h) == IF Len(h) > 1 THEN SubSeq(h, 2, Len(h)) ELSE NoId

\* What the worker answers for /album/<id>: album a has two images, album b
\* one, album e none and no title.
AlbumJson(id) ==
  IF id = IdA
  THEN [ album  |-> [ title |-> << "A" >>, description |-> "first" ],
         images |-> << [ src |-> << "a", "/", "1" >> ], [ src |-> << "a", "/", "2" >> ] >> ]
  ELSE IF id = IdB
  THEN [ album  |-> [ title |-> << "B" >>, description |-> "second" ],
         images |-> << [ src |-> << "b", "/", "1" >> ] >> ]
  ELSE [ album  |-> [ title |-> << >>, description |-> "" ],
         images |-> << >> ]

LoadingData ==
  [ album  |-> [ title |-> << "L", "o", "a", "d", "i", "n", "g", ".", ".", "." >>,
                 description |-> "Loading details..." ],
    images |-> << >> ]

ErrorData ==
  [ album  |-> [ title |-> << "E", "r", "r", "o", "r", " ", "L", "o", "a", "d", "i", "n", "g", " ",
                             "A", "l", "b", "u", "m" >>,
                 description |-> "Could not load album details." ],
    images |-> << >> ]

DefaultData ==
  [ album  |-> [ title |-> << "N", "o", " ", "A", "l", "b", "u", "m", " ",
                             "S", "e", "l", "e", "c", "t", "e", "d" >>,
                 description |-> "Please navigate from the album list." ],
    images |-> << >> ]

LoadError ==
  [ message |-> "Please check that the album still exists. Email if this persists." ]

NoAlbumError == [ message |-> "No album specified in URL hash." ]

\* setDefaultAlbumState
SetDefaultAlbumState ==
  /\ error' = NoAlbumError
  /\ data' = DefaultData
  /\ loading' = FALSE
  /\ instances' = FALSE
  /\ defaultShown' = TRUE
  /\ UNCHANGED << currentAlbumId, requests, ticks >>

\* An earlier fetchAlbumData call is still waiting.
Waiting(reqs) == \E k \in 1..Len(reqs) : reqs[k].stage # "done"

\* fetchAlbumData up to its first await: the fetch is sent.
FetchAlbumData(id) ==
  IF id = NoId
  THEN SetDefaultAlbumState
  ELSE /\ Len(requests) < MaxFetches
       /\ loading' = TRUE
       /\ error' = Null
       /\ currentAlbumId' = id
       /\ data' = LoadingData
       /\ instances' = FALSE
       /\ defaultShown' = FALSE
       /\ requests' = Append(requests, [ id         |-> id,
                                         stage      |-> "fetch",
                                         overlapped |-> Waiting(requests),
                                         shown      |-> Null ])
       /\ UNCHANGED ticks

\* init(): the first fetchAlbumData; the hashchange listener is registered.
Mount(h) ==
  /\ ~mounted
  /\ mounted' = TRUE
  /\ hash' = h
  /\ FetchAlbumData(GetAlbumIdFromHash(h))
  /\ UNCHANGED << scripts, zipLocals >>

\* The hashchange listener.
HashChange(h) ==
  /\ mounted
  /\ h # hash
  /\ hash' = h
  /\ LET newAlbumId == GetAlbumIdFromHash(h)
     IN  IF newAlbumId # NoId /\ newAlbumId # currentAlbumId
         THEN FetchAlbumData(newAlbumId)
         ELSE IF newAlbumId = NoId
         THEN SetDefaultAlbumState
         ELSE UNCHANGED << data, loading, error, currentAlbumId, instances, ticks,
                           requests, defaultShown >>
  /\ UNCHANGED << scripts, zipLocals, mounted >>

\* fetchAlbumData: the catch block and the finally block.
FetchCatch(k) ==
  /\ error' = LoadError
  /\ data' = ErrorData
  /\ instances' = FALSE
  /\ loading' = FALSE
  /\ requests' = [ requests EXCEPT ![k].stage = "done", ![k].shown = ErrorData ]
  /\ UNCHANGED ticks

\* fetchAlbumData: await fetch(...) settles: the response is ok, its status
\* is not, or the request is rejected.
FetchResolve(k, outcome) ==
  /\ k \in 1..Len(requests)
  /\ requests[k].stage = "fetch"
  /\ IF outcome = "ok"
     THEN /\ requests' = [ requests EXCEPT ![k].stage = "json" ]
          /\ UNCHANGED << data, loading, error, instances, ticks >>
     ELSE FetchCatch(k)
  /\ UNCHANGED << scripts, zipLocals, currentAlbumId, hash, mounted, defaultShown >>

\* fetchAlbumData: await response.json() settles and its value is assigned
\* to data, whatever album is the current one; the $nextTick callback is
\* registered and the finally block runs.
JsonResolve(k, parses) ==
  /\ k \in 1..Len(requests)
  /\ requests[k].stage = "json"
  /\ IF parses
     THEN LET json == AlbumJson(requests[k].id)
          IN  /\ data' = json
              /\ ticks' = ticks + 1
              /\ loading' = FALSE
              /\ requests' = [ requests EXCEPT ![k].stage = "done", ![k].shown = json ]
              /\ UNCHANGED << error, instances >>
     ELSE FetchCatch(k)
  /\ UNCHANGED << scripts, zipLocals, currentAlbumId, hash, mounted, defaultShown >>

\* _initInstances: nothing is created when the page has no element with id
\* "album".
InitInstances(grid) == IF grid THEN TRUE ELSE instances

\* The callback given to $nextTick runs: it reads data as it is by then, and
\* creates the gallery instances when there are images, else destroys them.
NextTick(grid) ==
  /\ ticks > 0
  /\ ticks' = ticks - 1
  /\ instances' = IF Len(data.images) > 0 THEN InitInstances(grid) ELSE FALSE
  /\ UNCHANGED << scripts, zipLocals, data, loading, error, currentAlbumId, hash, mounted,
                  requests, defaultShown >>

FetchOutcomes == { "ok", "status", "rejected" }

FetchStep ==
  \/ \E h \in HashInputs : Mount(h)
  \/ \E h \in HashInputs : HashChange(h)
  \/ \E k \in 1..MaxFetches, outcome \in FetchOutcomes : FetchResolve(k, outcome)
  \/ \E k \in 1..MaxFetches, parses \in BOOLEAN : JsonResolve(k, parses)
  \/ \E grid \in BOOLEAN : NextTick(grid)

----------------------------------------------------------------------------
(* The single-album view: downloadZip                                      *)

\* The value Math.round gives for a division by zero.
Infinity == 1000000

\* The quotient done / length written D / N with N <= D < 2N, both scaled by
\* powers of two: D / N is the significand of the quotient.
RECURSIVE Significand(_, _)
Significand(D, N) ==
  IF D < N THEN Significand(2 * D, N)
  ELSE IF D >= 2 * N THEN Significand(D, 2 * N)
  ELSE << D, N >>

\* (r * 2^k) mod N
RECURSIVE ShiftMod(_, _, _)
ShiftMod(r, N, k) == IF k = 0 THEN r % N ELSE ShiftMod((2 * r) % N, N, k - 1)

\* The number of bits after the leading one in the significand of a double.
FractionBits == 52

\* The double arithmetic of (done / length) * 100 when the exact value is
\* k + 1/2: the product comes out below k + 1/2 when the division was rounded
\* down (the part cut off is rem / N of a unit in the last place of the
\* quotient, less than half a unit) and that error, times 100, exceeds half
\* the distance from k + 1/2 to the double below it.  The distance is 2^6
\* units of the quotient when 100 * D / N < 128 and 2^7 otherwise, and half
\* as much below the power of two 1/2.  A product exactly half way is rounded
\* to k + 1/2, whose significand is even.
ProductBelowHalf(done, length) ==
  LET sig  == Significand(done, length)
      D    == sig[1]
      N    == sig[2]
      rem  == ShiftMod(D % N, N, FractionBits)
      unit == IF 100 * D < 128 * N THEN 64 ELSE 128
      lost == IF 200 * done = length THEN 400 * rem ELSE 200 * rem
  IN  rem # 0 /\ 2 * rem < N /\ lost > unit * N

\* Math.round(((i + 1) / length) * 100) in double arithmetic.  When the exact
\* value is not of the form k + 1/2 it is further from such a value than the
\* rounding errors reach, and the result is the exact value rounded; when it
\* is k + 1/2, the result is k + 1 unless the product came out below.
ProgressOf(done, length) ==
  IF length = 0 THEN Infinity
  ELSE LET exact == (200 * done + length) \div (2 * length)
       IN  IF (200 * done + length) % (2 * length) = 0 /\ ProductBelowHalf(done, length)
           THEN exact - 1
           ELSE exact

\* this.data?.images?.length, undefined counted as 0
ImageCount(d) == IF d = Null THEN 0 ELSE Len(d.images)

\* Variant: the guard looks at the images only.
MayStartDownloadAnyTime(isDownloading, images) == images # 0

\* if (this.downloading || !this.data?.images?.length) return;
MayStartDownload(isDownloading, images) == ~(isDownloading \/ images = 0)

\* this.data.album.title || this.currentAlbumId
ZipName(d, id) == IF d.album.title # << >> THEN d.album.title ELSE id

\* downloadZip up to its first await: the guard, and when it lets the call
\* through, the fetch of the first image.
DownloadZip ==
  /\ clicks < MaxClicks
  /\ clicks' = clicks + 1
  /\ IF MayStartDownload(downloading, ImageCount(data))
     THEN /\ downloading' = TRUE
          /\ downloadProgress' = 0
          /\ zipTasks' = Append(zipTasks, [ i     |-> 0,
                                            stage |-> "fetch",
                                            src   |-> data.images[1].src ])
          /\ imageFetches' = imageFetches + 1
     ELSE UNCHANGED << downloading, downloadProgress, zipTasks, imageFetches >>
  /\ UNCHANGED << scripts, data, loading, error, currentAlbumId, instances, ticks, hash,
                  mounted, requests, defaultShown, zips, alerts, timers >>

\* A sequence without its element at position t.
Without(tasks, t) == SubSeq(tasks, 1, t - 1) \o SubSeq(tasks, t + 1, Len(tasks))

\* downloadZip: the catch block (when the await threw) and the finally block;
\* the call is over.
ZipFinally(t, threw) ==
  /\ zipTasks' = Without(zipTasks, t)
  /\ alerts' = IF threw THEN alerts + 1 ELSE alerts
  /\ downloading' = FALSE
  /\ timers' = timers + 1

\* downloadZip: await fetch(image.src) settles.
ZipFetchResolve(t, ok) ==
  /\ t \in 1..Len(zipTasks)
  /\ zipTasks[t].stage = "fetch"
  /\ IF ok
     THEN /\ zipTasks' = [ zipTasks EXCEPT ![t].stage = "blob" ]
          /\ UNCHANGED << downloading, alerts, timers >>
     ELSE ZipFinally(t, TRUE)
  /\ UNCHANGED << scripts, data, loading, error, currentAlbumId, instances, ticks, hash,
                  mounted, requests, defaultShown, clicks, downloadProgress,
                  imageFetches, zips >>

\* downloadZip: await response.blob() settles; the file is added, the
\* progress is set and the loop goes on with the images data holds now.
ZipBlobResolve(t, ok) ==
  /\ t \in 1..Len(zipTasks)
  /\ zipTasks[t].stage = "blob"
  /\ IF ok
     THEN LET next == zipTasks[t].i + 1
          IN  /\ downloadProgress' = ProgressOf(next, Len(data.images))
              /\ IF next < Len(data.images)
                 THEN /\ zipTasks' = [ zipTasks EXCEPT ![t].i = next,
                                                        ![t].stage = "fetch",
                                                        ![t].src = data.images[next + 1].src ]
                      /\ imageFetches' = imageFetches + 1
                 ELSE /\ zipTasks' = [ zipTasks EXCEPT ![t].i = next,
                                                        ![t].stage = "generate" ]
                      /\ UNCHANGED imageFetches
              /\ UNCHANGED << downloading, alerts, timers >>
     ELSE /\ ZipFinally(t, TRUE)
          /\ UNCHANGED << downloadProgress, imageFetches >>
  /\ UNCHANGED << scripts, data, loading, error, currentAlbumId, instances, ticks, hash,
                  mounted, requests, defaultShown, clicks, zips >>

\* downloadZip: await zip.generateAsync(...) settles; the file, with the
\* images added, is handed to the browser.
ZipGenerateResolve(t, ok) ==
  /\ t \in 1..Len(zipTasks)
  /\ zipTasks[t].stage = "generate"
  /\ IF ok
     THEN /\ zips' = Append(zips, [ name  |-> ZipName(data, currentAlbumId),
                                     files |-> zipTasks[t].i ])
          /\ downloadProgress' = 100
          /\ ZipFinally(t, FALSE)
     ELSE /\ ZipFinally(t, TRUE)
          /\ UNCHANGED << zips, downloadProgress >>
  /\ UNCHANGED << scripts, data, loading, error, currentAlbumId, instances, ticks, hash,
                  mounted, requests, defaultShown, clicks, imageFetches >>

\* setTimeout(() => (this.downloadProgress = 0), 2000)
TimerFires ==
  /\ timers > 0
  /\ timers' = timers - 1
  /\ downloadProgress' = 0
  /\ UNCHANGED << scripts, data, loading, error, currentAlbumId, instances, ticks, hash,
                  mounted, requests, defaultShown, clicks, downloading, zipTasks,
                  imageFetches, zips, alerts >>

\* An await of a running downloadZip settles.
ZipStep ==
  \/ \E t \in 1..MaxClicks, ok \in BOOLEAN : ZipFetchResolve(t, ok)
  \/ \E t \in 1..MaxClicks, ok \in BOOLEAN : ZipBlobResolve(t, ok)
  \/ \E t \in 1..MaxClicks, ok \in BOOLEAN : ZipGenerateResolve(t, ok)

----------------------------------------------------------------------------
(* Specifications                                                          *)

\* The actions main offers.
Actions == { "manage", "delete" }

\* One run of either script, from any of the small initial stores.
Next ==
  \/ \E act \in Actions, input \in AlbumIdInputs : Main(act, input)
  \/ DeleteStep
  \/ ManageStep
  \/ UploaderStep

Spec == Init /\ [][Next]_vars

\* A finished script is started again; what it left behind is remembered.
Rerun ==
  /\ pc \in { "done", "crashed", "exited" }
  /\ runs < MaxRuns
  /\ previous' = [ action    |-> action,
                   albumId   |-> albumId,
                   folder    |-> PathJoin(localBaseDir, selectedFolder),
                   message   |-> ReturnMessage.text,
                   faults    |-> faults,
                   puts      |-> LET IsPut(c) == c.svc = "r2" /\ c.op = "put"
                                 IN  FilterSeq(calls, IsPut),
                   r2        |-> r2 ]
  /\ pc' = "idle"
  /\ UNCHANGED << kv, r2, cloudflare, singleAlbum, action, albumId, deleteLocals, uploadLocals,
                  calls, console, start, faults, runs, prompts >>

InitRerun ==
  /\ kv = EmptyKv
  /\ r2 \in SmallStores
  /\ cloudflare = FALSE
  /\ start = [ kv |-> kv, r2 |-> r2 ]
  /\ InitLocals

\* The base directory of the repeated runs.
RerunBaseDirs == { BaseLocalDot }

\* Runs of manageAlbum that skip the metadata and upload a folder of that
\* base directory, one after the other.
NextRerun ==
  \/ \E input \in AlbumIdInputs : Main("manage", input)
  \/ ManagePrompt(FALSE)
  \/ ManageUploadPrompt(TRUE)
  \/ \E input \in RerunBaseDirs : ManageBaseDir(input)
  \/ \E folder \in AlbumFolders(localBaseDir) : ManageSelectFolder(folder)
  \/ ManageConfirmUpload(TRUE)
  \/ \E fails \in BOOLEAN : ManageUploadFile(fails)
  \/ ManageReport
  \/ Rerun

SpecRerun == InitRerun /\ [][NextRerun]_vars

\* One run of deleteAlbum on a bucket that holds a large album.
NextLarge ==
  \/ \E input \in AlbumIdInputs : Main("delete", input)
  \/ DeleteStep

SpecLarge == InitLarge /\ [][NextLarge]_vars

\* The characters folder names are drawn from: an upper-case letter, a
\* lower-case letter, a digit, the hyphen, and two characters outside the
\* identifier grammar.
SlugAlphabet == { "A", "b", "1", "-", " ", "_" }

MaxNameLen == 4

\* The folder names glob may return.
FolderNames == UNION { [ 1..n -> SlugAlphabet ] : n \in 1..MaxNameLen }

\* The uploader before the list of choices is built, with a folder of any
\* name found in the base directory.
InitSlug ==
  /\ kv = EmptyKv
  /\ r2 = << >>
  /\ cloudflare = FALSE
  /\ start = [ kv |-> kv, r2 |-> r2 ]
  /\ pc = "upload_folder"
  /\ action = "upload"
  /\ albumId = << >>
  /\ existingMetadata = Null
  /\ existingImages = << >>
  /\ confirmDelete = FALSE
  /\ imageKeys = << >>
  /\ i = 0
  /\ deletedCount = 0
  /\ manageMetadata = FALSE
  /\ kvMetadata = Null
  /\ uploadImages = FALSE
  /\ localBaseDir = BaseLocal
  /\ selectedFolder \in FolderNames
  /\ imageFiles = << >>
  /\ fileIndex = 0
  /\ uploadedCount = 0
  /\ calls = << >>
  /\ console = << >>
  /\ faults = 0
  /\ runs = 1
  /\ previous = Null
  /\ InitSingleAlbum

\* uploader main: the id of the choice built for the folder.
SlugDerive ==
  /\ pc = "upload_folder"
  /\ albumId' = FolderId(selectedFolder)
  /\ pc' = "upload_confirm"
  /\ UNCHANGED << kv, r2, cloudflare, singleAlbum, action, deleteLocals, uploadLocals,
                  calls, console, start, faults, runs, previous, prompts >>

NextSlug == SlugDerive

SpecSlug == InitSlug /\ [][NextSlug]_vars

\* The single-album view in the browser; the scripts are not running.
InitAlbum ==
  /\ kv = EmptyKv
  /\ r2 = << >>
  /\ cloudflare = FALSE
  /\ start = [ kv |-> kv, r2 |-> r2 ]
  /\ InitLocals

\* The view follows the hash; responses arrive in any order and may fail.
NextAlbum == FetchStep

SpecAlbum == InitAlbum /\ [][NextAlbum]_vars

\* The hashes of the albums the worker knows.
AlbumHashes == { << "#" >> \o IdA, << "#" >> \o IdB, << "#" >> \o IdE }

\* The view with its download button, the worker answering every album
\* request; an await of a running downloadZip settles in the end.
NextDownload ==
  \/ \E h \in AlbumHashes : Mount(h)
  \/ \E h \in AlbumHashes : HashChange(h)
  \/ \E k \in 1..MaxFetches : FetchResolve(k, "ok")
  \/ \E k \in 1..MaxFetches : JsonResolve(k, TRUE)
  \/ \E grid \in BOOLEAN : NextTick(grid)
  \/ DownloadZip
  \/ ZipStep
  \/ TimerFires

SpecDownload == InitAlbum /\ [][NextDownload]_vars /\ WF_vars(ZipStep)

----------------------------------------------------------------------------
(* Notions the properties are stated with                                  *)

\* The keys of all image objects a bucket holds under the prefix of an album.
AllImageKeys(store, id) ==
  { store[k].Key : k \in { m \in 1..Len(store) :
        StartsWith(store[m].Key, id \o << "/" >>) /\ IsImageName(store[m].Key) } }

\* The requests of this run to a service with an operation, in order.
CallsOf(svc, op) ==
  LET Is(c) == c.svc = svc /\ c.op = op IN FilterSeq(calls, Is)

\* A confirmed deleteAlbum has run to its closing message.
DeleteCompleted ==
  /\ pc = "done"
  /\ action = "delete"
  /\ confirmDelete
  /\ ReturnMessage.text = "Album has been completely deleted"

----------------------------------------------------------------------------
(* Properties                                                              *)

\* C1: once a confirmed deleteAlbum has run to completion, the metadata get
\* for the album yields absent and the image listing under its prefix is
\* empty.  (Stated for the runs in which no request failed and no key was
\* reported in error; it fails already there.)
C1_DeleteLeavesNothing ==
  (DeleteCompleted /\ faults = 0) =>
    /\ GetKvMetadata(kv, cloudflare, albumId, FALSE) = Null
    /\ ListR2Images(r2, albumId, FALSE) = << >>

\* C3: a listing that did not fail returns every image key stored under the
\* prefix of the album, also when there are more than one page holds.
C3_ListReturnsEveryImage ==
  (pc = "delete_check" /\ calls[Len(calls)].op = "list" /\ calls[Len(calls)].ok) =>
    Range(existingImages) = AllImageKeys(r2, albumId)

\* C4: deleting an album of n images sends batches of at most 1000 keys,
\* every image key of the album is in exactly one batch, without per-key
\* errors the reported count is n, and 1500 images take at least two batches.
C4_BatchesCoverAlbum ==
  (DeleteCompleted /\ faults = 0) =>
    LET batches == CallsOf("r2", "deleteObjects")
        images  == AllImageKeys(start.r2, albumId)
    IN  /\ \A b \in 1..Len(batches) : Len(batches[b].arg) <= 1000
        /\ \A key \in images :
             Cardinality({ b \in 1..Len(batches) : key \in Range(batches[b].arg) }) = 1
        /\ images # {} => deletedCount = Cardinality(images)
        /\ Cardinality(images) = 1500 => Len(batches) >= 2

\* The positions of manageAlbum before the upload prompt is answered.
BeforeUploadPrompt ==
  { "manage_prompt", "manage_getKv", "manage_list", "manage_answers",
    "manage_updateKv", "manage_uploadPrompt" }

\* A manageAlbum run in which the operator gave the metadata answers and
\* then declined the upload.
DeclinedUpload ==
  /\ action = "manage"
  /\ manageMetadata
  /\ kvMetadata # Null
  /\ ~uploadImages
  /\ pc \notin BeforeUploadPrompt

\* C2 as claimed: a manageAlbum run with metadata answers and a declined
\* upload sends no request at all to the object store.
C2_NoObjectStoreCall ==
  DeclinedUpload => \A c \in 1..Len(calls) : calls[c].svc # "r2"

\* C2 as amended: such a run ends at the prompt, sends no put and no delete
\* request and leaves the bucket as it was; the one request it sends to the
\* object store is the listing for the cover question.
C2_NoObjectStoreWrite ==
  DeclinedUpload =>
    /\ pc = "done"
    /\ CallsOf("r2", "put") = << >>
    /\ CallsOf("r2", "deleteObjects") = << >>
    /\ Len(CallsOf("r2", "list")) = 1
    /\ r2 = start.r2

C2_Witness ==
  /\ DeclinedUpload
  /\ pc = "done"
  /\ kv # start.kv
  /\ AllImageKeys(r2, albumId) # {}

\* C5: when the upload loop of manageAlbum or of the uploader has
\* ended, a put was sent for every matching file and the tallies were
\* printed with processed = matching files and succeeded + failed = processed.
C5_PutForEveryFile ==
  (Len(imageFiles) > 0 /\ pc \in { "done", "crashed" }) =>
    LET puts == CallsOf("r2", "put")
        good == Cardinality({ k \in 1..Len(puts) : puts[k].ok })
    IN  /\ Len(puts) = Len(imageFiles)
        /\ \E m \in 1..Len(console) :
             /\ console[m].text = "Upload Complete"
             /\ console[m].arg = [ processed |-> Len(imageFiles),
                                   succeeded |-> good,
                                   failed    |-> Len(imageFiles) - good ]

\* The delete requests of this run, to either store.
DeleteCalls == CallsOf("r2", "deleteObjects") \o CallsOf("kv", "delete")

\* C6: deleteAlbum sends no delete request to either store unless the
\* operator confirmed in this run; without the confirmation both stores
\* stay as they were.
C6_NoDeleteWithoutConfirm ==
  (action = "delete" /\ ~confirmDelete) =>
    /\ DeleteCalls = << >>
    /\ kv = start.kv
    /\ r2 = start.r2

C6_Witness ==
  /\ action = "delete"
  /\ pc = "done"
  /\ ~confirmDelete
  /\ ReturnMessage.text = "Deletion cancelled"
  /\ existingMetadata # Null
  /\ Len(existingImages) > 0

\* Neither a metadata document nor an image object of the album existed
\* when the run began.
NothingStored ==
  /\ KvKey(albumId) \notin DOMAIN start.kv
  /\ AllImageKeys(start.r2, albumId) = {}

\* C7: deleteAlbum on an album of which nothing is stored reports "not
\* found" and ends: the confirmation is never asked for and no delete request
\* is sent.
C7_MissingAlbumIsNoOp ==
  (action = "delete" /\ NothingStored) =>
    /\ pc \in { "delete_getKv", "delete_list", "delete_check", "done" }
    /\ \A m \in 1..Len(console) : console[m].text # "ALBUM DELETION SUMMARY"
    /\ DeleteCalls = << >>
    /\ pc = "done" => ReturnMessage.text = "Album not found"
    /\ kv = start.kv
    /\ r2 = start.r2

C7_Witness ==
  /\ action = "delete"
  /\ NothingStored
  /\ pc = "done"
  /\ ReturnMessage.text = "Album not found"
  /\ cloudflare

\* C9: the uploader puts every file as manageAlbum does: the same key and
\* the same width and height, and 1200 x 800 for a file whose dimensions
\* cannot be determined, whatever its name.
C9_UploaderPutsAsManage ==
  action = "upload" =>
    LET puts == CallsOf("r2", "put")
        path == PathJoin(localBaseDir, selectedFolder)
    IN  \A k \in 1..Len(puts) :
          LET bytes == FileAt(path, imageFiles[k]).bytes
          IN  /\ puts[k].arg = ManagePutCommand(albumId, imageFiles[k], bytes)
              /\ ~ValidDimensions(bytes) =>
                   puts[k].arg.Metadata = [ width  |-> << "1", "2", "0", "0" >>,
                                            height |-> << "8", "0", "0" >> ]

\* C10: the uploader never writes or deletes a metadata document: it sends
\* no request to the metadata store, the store stays as it was, and the
\* suggested record is printed.
C10_UploaderLeavesKv ==
  action = "upload" =>
    /\ kv = start.kv
    /\ \A c \in 1..Len(calls) : calls[c].svc # "kv"
    /\ pc = "done" =>
         /\ ReturnMessage.text = "KV Update Reminder"
         /\ console[Len(console)].arg =
              AlbumKvData(selectedFolder, albumId, imageFiles, uploadedCount)

C10_Witness ==
  /\ action = "upload"
  /\ pc = "done"
  /\ uploadedCount > 0
  /\ KvKey(albumId) \notin DOMAIN kv

\* Key, width and height of the objects of a bucket, in key order.
KeysAndDimensions(store) ==
  [ k \in 1..Len(store) |-> [ Key |-> store[k].Key, Metadata |-> store[k].Metadata ] ]

\* The object a bucket holds under a key, with its width and height; Null
\* when it holds none.
ObjectAt(store, key) ==
  IF \E k \in 1..Len(store) : store[k].Key = key
  THEN LET k == CHOOSE m \in 1..Len(store) : store[m].Key = key
       IN  [ Key |-> key, Metadata |-> store[k].Metadata ]
  ELSE Null

\* The keys of the puts among some requests that went through.
StoredBy(puts) == { puts[k].arg.Key : k \in { m \in 1..Len(puts) : puts[m].ok } }

\* Key, width and height of the put commands among some requests.
CommandsOf(puts) ==
  { [ Key |-> puts[k].arg.Key, Metadata |-> puts[k].arg.Metadata ] : k \in 1..Len(puts) }

\* A manageAlbum upload has ended, by its report or by an unreadable entry,
\* and the run before it was a manageAlbum upload of the same folder to the
\* same album.
SecondUploadEnded ==
  /\ pc \in { "done", "crashed" }
  /\ action = "manage"
  /\ imageFiles # << >>
  /\ previous # Null
  /\ previous.action = "manage"
  /\ previous.albumId = albumId
  /\ previous.folder = PathJoin(localBaseDir, selectedFolder)
  /\ previous.puts # << >>

\* Both of these runs reached their report.
SecondUploadReported ==
  /\ SecondUploadEnded
  /\ pc = "done"
  /\ ReturnMessage.text = "Upload Complete"
  /\ previous.message = "Upload Complete"

\* C8: after the second of two manageAlbum uploads of the same folder to
\* the same album the bucket holds the keys and dimensions it held after the
\* first, and the second run sent one put per matching file.
C8_RerunIdempotent ==
  SecondUploadReported =>
    /\ KeysAndDimensions(r2) = KeysAndDimensions(previous.r2)
    /\ Len(CallsOf("r2", "put")) = Len(imageFiles)

\* C8 as amended: however the two runs ended and whichever puts failed, the
\* second run changes the bucket only at keys whose put went through in the
\* second run; a key whose put went through in both runs holds the same
\* width and height after the second run as after the first; so the bucket
\* after the second run differs from the bucket after the first at most at
\* keys stored by the second run and not by the first, and is the same in
\* keys and dimensions when there is no such key.  When both runs reached
\* their report, the second sent one put per matching file, with the keys
\* and dimensions of the puts of the first (overwrite, not skip).
C8_RerunChangesOnlyNewlyStored ==
  SecondUploadEnded =>
    LET puts   == CallsOf("r2", "put")
        first  == StoredBy(previous.puts)
        second == StoredBy(puts)
        keys   == { r2[k].Key : k \in 1..Len(r2) }
                    \cup { previous.r2[k].Key : k \in 1..Len(previous.r2) }
    IN  /\ \A key \in keys \ second : ObjectAt(r2, key) = ObjectAt(previous.r2, key)
        /\ \A key \in second \cap first : ObjectAt(r2, key) = ObjectAt(previous.r2, key)
        /\ second \subseteq first => KeysAndDimensions(r2) = KeysAndDimensions(previous.r2)
        /\ SecondUploadReported =>
             /\ Len(puts) = Len(imageFiles)
             /\ Cardinality(CommandsOf(puts)) = Len(imageFiles)
             /\ CommandsOf(puts) = CommandsOf(previous.puts)

\* Two uploads that reported, where a put failed in the first run and went
\* through in the second, next to a put that went through in both.
C8_Witness ==
  /\ SecondUploadReported
  /\ StoredBy(CallsOf("r2", "put")) \cap StoredBy(previous.puts) # {}
  /\ StoredBy(CallsOf("r2", "put")) \ StoredBy(previous.puts) # {}
  /\ KeysAndDimensions(r2) # KeysAndDimensions(previous.r2)

\* The positions in the request log of the metadata delete requests.
KvDeletePositions ==
  { c \in 1..Len(calls) : calls[c].svc = "kv" /\ calls[c].op = "delete" }

\* The positions of deleteAlbum between the confirmation and the return of
\* deleteKvMetadata.
ImageStep == { "deleteR2_list", "deleteR2_batch", "delete_kv" }

\* C11: in a confirmed deleteAlbum the image objects are deleted first and
\* the metadata document afterwards: the metadata delete request is the last
\* request of the run, so no batch delete follows it, it is sent only after
\* deleteR2Images ran when images were found, and until it is sent the
\* metadata store is as it was, so a document that existed is still there
\* while images of the album are.
C11_ImagesBeforeMetadata ==
  (action = "delete" /\ confirmDelete) =>
    /\ Cardinality(KvDeletePositions) <= 1
    /\ \A c \in KvDeletePositions : c = Len(calls)
    /\ (KvDeletePositions # {} /\ Len(existingImages) > 0) =>
         Len(CallsOf("r2", "list")) = 2
    /\ pc \in ImageStep => kv = start.kv
    /\ (pc \in ImageStep /\ KvKey(albumId) \in DOMAIN start.kv
          /\ AllImageKeys(r2, albumId) # {}) => KvKey(albumId) \in DOMAIN kv

C11_Witness ==
  /\ action = "delete"
  /\ confirmDelete
  /\ pc = "done"
  /\ \E b \in 1..Len(calls) :
       /\ calls[b].svc = "r2" /\ calls[b].op = "deleteObjects" /\ calls[b].ok
       /\ \E c \in KvDeletePositions : b < c /\ calls[c].ok
  /\ KvKey(albumId) \in DOMAIN start.kv
  /\ KvKey(albumId) \notin DOMAIN kv

\* The keys the batch deletes of this run removed: those of the batches that
\* went through, less the keys the responses reported in error.
DeletedKeys ==
  LET sent   == UNION { Range(calls[c].arg) :
                  c \in { d \in 1..Len(calls) :
                    calls[d].svc = "r2" /\ calls[d].op = "deleteObjects" /\ calls[d].ok } }
      failed == UNION { console[m].arg :
                  m \in { n \in 1..Len(console) : console[n].text = "Some deletions failed" } }
  IN  sent \ failed

\* A message with this text was printed in this run.
Printed(text) == \E m \in 1..Len(console) : console[m].text = text

\* A batch delete of this run failed as a whole.
BatchDeleteFailed ==
  \E c \in 1..Len(calls) :
    calls[c].svc = "r2" /\ calls[c].op = "deleteObjects" /\ ~calls[c].ok

\* C12: in a confirmed deleteAlbum neither deletion step blocks the other.
\* The metadata delete is sent once whenever metadata was found, also after a
\* batch delete that failed; a failed batch delete and a failed metadata
\* delete are each reported (the metadata delete by the error line, or by
\* the "no metadata found" line when the service answered 404 / 10009); the
\* run reaches its closing message; and the bucket ends as the batch deletes
\* left it, whatever the metadata delete did.
C12_StepsIndependent ==
  (action = "delete" /\ confirmDelete /\ pc = "done") =>
    /\ existingMetadata # Null => Cardinality(KvDeletePositions) = 1
    /\ BatchDeleteFailed => Printed("Error deleting R2 images")
    /\ (\E c \in KvDeletePositions : ~calls[c].ok) =>
         /\ Printed("Error deleting KV metadata") \/ Printed("No KV metadata found")
         /\ kv = start.kv
    /\ r2 = DeleteObjects(start.r2, DeletedKeys)
    /\ ReturnMessage.text = "Album has been completely deleted"

C12_Witness ==
  /\ action = "delete"
  /\ confirmDelete
  /\ pc = "done"
  /\ BatchDeleteFailed
  /\ AllImageKeys(r2, albumId) # {}
  /\ \E c \in KvDeletePositions : calls[c].ok
  /\ KvKey(albumId) \notin DOMAIN kv

\* A confirmed deleteAlbum whose metadata delete failed after its batch
\* delete removed the images.
C12_MetadataFailureReached ==
  /\ action = "delete"
  /\ confirmDelete
  /\ pc = "done"
  /\ DeletedKeys # {}
  /\ \E c \in KvDeletePositions : ~calls[c].ok

\* The metadata get of this run was sent and failed (transport or parse
\* error).
GetKvFailed ==
  \E c \in 1..Len(calls) : calls[c].svc = "kv" /\ calls[c].op = "get" /\ ~calls[c].ok

\* The positions of deleteAlbum and manageAlbum right after the metadata get.
AfterMetadataRead == { "delete_list", "manage_list" }

\* C13: the metadata get never aborts its caller.  Right after it the caller
\* holds the stored document when the get went through and found one, and
\* null in every other case (no client, key absent, request or parse error);
\* after a failed get the run goes on as with no metadata: a warning is
\* printed, no metadata delete is sent, a delete without images reports
\* "not found", and the metadata questions take the defaults of a new album.
C13_GetNeverAborts ==
  (action \in { "delete", "manage" }) =>
    /\ (calls # << >> /\ calls[Len(calls)].svc = "kv" /\ calls[Len(calls)].op = "get") =>
         pc \in AfterMetadataRead
    /\ pc \in AfterMetadataRead =>
         existingMetadata =
           IF cloudflare /\ ~GetKvFailed /\ KvKey(albumId) \in DOMAIN kv
           THEN kv[KvKey(albumId)] ELSE Null
    /\ GetKvFailed =>
         /\ existingMetadata = Null
         /\ Printed("Error fetching KV metadata")
         /\ pc # "crashed" \/ imageFiles # << >>
         /\ KvDeletePositions = {}
         /\ (action = "delete" /\ pc = "done" /\ Len(existingImages) = 0) =>
              ReturnMessage.text = "Album not found"
         /\ (action = "manage" /\ kvMetadata # Null) =>
              /\ kvMetadata.description = << >>
              /\ kvMetadata.private = FALSE
              /\ kvMetadata.title \in TitleInputs(Null, albumId)

C13_Witness ==
  /\ action = "manage"
  /\ pc = "done"
  /\ GetKvFailed
  /\ KvKey(albumId) \in DOMAIN start.kv
  /\ kvMetadata # Null
  /\ kv # start.kv

\* A manageAlbum run whose operator asked for the upload and selected a
\* folder that holds no file with an image extension.
NoImageFolder ==
  /\ action = "manage"
  /\ uploadImages
  /\ selectedFolder # << >>
  /\ \A e \in EntriesOf(PathJoin(localBaseDir, selectedFolder)) : ~IsImageName(e.name)

\* The metadata update of this run went through.
MetadataSaved ==
  \E c \in 1..Len(calls) : calls[c].svc = "kv" /\ calls[c].op = "update" /\ calls[c].ok

\* C14: when the selected folder holds no file with an image extension,
\* manageAlbum ends the upload phase with a warning (or with the operator's
\* cancellation), sends no put and leaves the bucket as it was, and a
\* metadata document saved earlier in the run stays stored as it was saved.
C14_EmptyFolderEndsUpload ==
  NoImageFolder =>
    /\ pc \in { "manage_confirmUpload", "done" }
    /\ pc = "done" =>
         /\ ReturnMessage.text \in { "No image files found", "Upload cancelled" }
         /\ ReturnMessage.text = "No image files found" => ReturnMessage.level = "warn"
    /\ CallsOf("r2", "put") = << >>
    /\ r2 = start.r2
    /\ MetadataSaved =>
         /\ KvKey(albumId) \in DOMAIN kv
         /\ kv[KvKey(albumId)] = kvMetadata

C14_Witness ==
  /\ NoImageFolder
  /\ pc = "done"
  /\ ReturnMessage.text = "No image files found"
  /\ MetadataSaved
  /\ kv # start.kv

\* C16: the album id the uploader derives from a folder name has only
\* characters of [a-z0-9-], no two hyphens in a row and no hyphen at either
\* end; it is the empty string or an identifier of the grammar ^[a-z0-9-]+$.
C16_DerivedIdIsSlug ==
  (action = "upload" /\ pc = "upload_confirm") =>
    /\ albumId = FolderId(selectedFolder)
    /\ \A k \in 1..Len(albumId) : IsIdChar(albumId[k])
    /\ \A k \in 1..(Len(albumId) - 1) : ~(albumId[k] = "-" /\ albumId[k + 1] = "-")
    /\ albumId # << >> => (albumId[1] # "-" /\ albumId[Len(albumId)] # "-")
    /\ albumId = << >> \/ IsAlbumId(albumId)

C16_Witness ==
  /\ action = "upload"
  /\ pc = "upload_confirm"
  /\ Len(selectedFolder) = MaxNameLen
  /\ Len(albumId) = Len(selectedFolder) - 2
  /\ albumId # SubSeq(selectedFolder, 2, Len(selectedFolder) - 1)
  /\ \E k \in 1..Len(selectedFolder) : selectedFolder[k] = "A"

\* A folder name of which nothing is left: the derived id is empty.
C16_EmptyIdReached ==
  /\ action = "upload"
  /\ pc = "upload_confirm"
  /\ selectedFolder # << >>
  /\ albumId = << >>

\* C15: when fetchAlbumData was started for an album while the call for the
\* album before it was still waiting, then, once every response has been
\* handled (and the default state was not shown meanwhile), the view shows
\* what the last call got for currentAlbumId: a late response for the
\* earlier album does not replace it.
C15_LateResponseIgnored ==
  LET n == Len(requests)
  IN  (n >= 2 /\ ~Waiting(requests) /\ requests[n].overlapped /\ ~defaultShown) =>
        /\ currentAlbumId = requests[n].id
        /\ data = requests[n].shown

\* C17: at most one downloadZip runs at a time, and downloading is true just
\* while one runs; a call made while downloading is true, or while there are
\* no images, sends no image request and changes nothing of the download;
\* and every download that started sets downloading back to false, whether
\* it succeeds or fails.
C17_OneDownloadAtATime ==
  /\ [](Len(zipTasks) <= 1 /\ (downloading <=> Len(zipTasks) = 1))
  /\ [][(clicks' # clicks /\ (downloading \/ ImageCount(data) = 0)) =>
          UNCHANGED << imageFetches, zipTasks, downloading, downloadProgress,
                       zips, alerts, timers >>]_vars
  /\ (downloading ~> ~downloading)

\* Of two downloadZip calls one was turned away by the guard; the other
\* fetched both images of the album, handed the zip file over and ended.
C17_Witness ==
  /\ clicks = 2
  /\ imageFetches = 2
  /\ ~downloading
  /\ timers > 0
  /\ Len(zips) = 1
  /\ zips[1].files = 2

=============================================================================
